---- MODULE Spec2Model ----
(***************************************************************************)
(* Model of the transcription post-processing core of                      *)
(* shaiengel/transcription:                                                *)
(*   - token-aware batch-entry construction (transcription_reviewer),      *)
(*   - batch output parsing, regrouping of split records and timestamp     *)
(*     reinjection (post_inference),                                       *)
(*   - alignment degradation detection and truncation (gpu_timestamp).     *)
(*                                                                         *)
(* Python strings are modelled as sequences of one-character strings, so   *)
(* that strip/split/join, f-string formatting, int() and the regular       *)
(* expressions of the code are computed on characters.                     *)
(* Probabilities are integers in hundredths; averages are kept as exact    *)
(* fractions and compared by cross-multiplication.                         *)
(***************************************************************************)
EXTENDS Integers, Sequences, FiniteSets, TLC

(***************************************************************************)
(* Python string primitives                                                *)
(***************************************************************************)

NL == "\n"

\* characters str.strip() / str.split() / \s treat as white space
Whitespace == {" ", "\n", "\t"}

Digits == <<"0", "1", "2", "3", "4", "5", "6", "7", "8", "9">>

DigitChars == {Digits[i] : i \in 1..10}

IsDigit(c) == c \in DigitChars

DigitVal(c) == (CHOOSE i \in 1..10 : Digits[i] = c) - 1

\* str(n) for n >= 0, as used by f"{stem}_{i}" and f"dummy_{i}"
RECURSIVE IntToStr(_)
IntToStr(n) ==
    IF n < 10 THEN <<Digits[n + 1]>>
    ELSE IntToStr(n \div 10) \o <<Digits[(n % 10) + 1]>>

\* int(s) for a non-empty string of digits
RECURSIVE StrToInt(_)
StrToInt(s) ==
    IF Len(s) = 0 THEN 0
    ELSE 10 * StrToInt(SubSeq(s, 1, Len(s) - 1)) + DigitVal(s[Len(s)])

\* s.startswith(p)
StartsWith(s, p) == Len(s) >= Len(p) /\ SubSeq(s, 1, Len(p)) = p

\* str.lstrip()
RECURSIVE LStrip(_)
LStrip(s) ==
    IF Len(s) = 0 THEN s
    ELSE IF s[1] \in Whitespace THEN LStrip(Tail(s)) ELSE s

\* str.rstrip()
RECURSIVE RStrip(_)
RStrip(s) ==
    IF Len(s) = 0 THEN s
    ELSE IF s[Len(s)] \in Whitespace THEN RStrip(SubSeq(s, 1, Len(s) - 1)) ELSE s

\* str.strip()
Strip(s) == RStrip(LStrip(s))

\* index of the first sep at or after i (Len(s)+1 if none)
RECURSIVE NextSep(_, _, _)
NextSep(s, i, sep) ==
    IF i > Len(s) \/ s[i] = sep THEN i ELSE NextSep(s, i + 1, sep)

\* s.split(sep) for a one-character separator: "" gives [""], "a\n" gives ["a", ""]
RECURSIVE SplitFrom(_, _, _)
SplitFrom(s, i, sep) ==
    LET j == NextSep(s, i, sep)
    IN  IF j > Len(s) THEN <<SubSeq(s, i, Len(s))>>
        ELSE <<SubSeq(s, i, j - 1)>> \o SplitFrom(s, j + 1, sep)

Split(s, sep) == SplitFrom(s, 1, sep)

\* sep.join(parts)
RECURSIVE Join(_, _)
Join(parts, sep) ==
    IF Len(parts) = 0 THEN <<>>
    ELSE IF Len(parts) = 1 THEN parts[1]
    ELSE parts[1] \o <<sep>> \o Join(Tail(parts), sep)

\* len(s.split()): number of maximal runs of non-whitespace characters
WordCount(s) ==
    Cardinality({i \in 1..Len(s) :
                    /\ s[i] \notin Whitespace
                    /\ (i = 1 \/ s[i - 1] \in Whitespace)})

\* [line.strip() for line in text.strip().split("\n") if line.strip()]
RECURSIVE StripNonEmpty(_)
StripNonEmpty(lines) ==
    IF Len(lines) = 0 THEN <<>>
    ELSE IF Len(Strip(lines[1])) = 0 THEN StripNonEmpty(Tail(lines))
    ELSE <<Strip(lines[1])>> \o StripNonEmpty(Tail(lines))

NonEmptyLines(text) == StripNonEmpty(Split(Strip(text), NL))

(***************************************************************************)
(* Regular expressions of batch_result_processor.py                        *)
(***************************************************************************)

\* index of the first character at or after i that is not in set (Len(s)+1 if none)
RECURSIVE SkipSet(_, _, _)
SkipSet(s, i, set) ==
    IF i <= Len(s) /\ s[i] \in set THEN SkipSet(s, i + 1, set) ELSE i

At(s, i, c) == i >= 1 /\ i <= Len(s) /\ s[i] = c

DigitAt(s, i) == i >= 1 /\ i <= Len(s) /\ IsDigit(s[i])

\* \d{2}:\d{2}:\d{2}\.\d{3} at position i
MatchTs(s, i) ==
    /\ DigitAt(s, i) /\ DigitAt(s, i + 1) /\ At(s, i + 2, ":")
    /\ DigitAt(s, i + 3) /\ DigitAt(s, i + 4) /\ At(s, i + 5, ":")
    /\ DigitAt(s, i + 6) /\ DigitAt(s, i + 7) /\ At(s, i + 8, ".")
    /\ DigitAt(s, i + 9) /\ DigitAt(s, i + 10) /\ DigitAt(s, i + 11)

\* TIMED_LINE_PATTERN.match(line): the positions of the parts of
\* ^(\[\d+\]\s+TS\s+-\s+TS:\s*)(.*)$ ; ok = FALSE when the line does not match.
\* '.' does not match a newline, and '$' also matches before a final newline.
TimedLineMatch(line) ==
    LET d1 == SkipSet(line, 2, DigitChars)
        w1 == SkipSet(line, d1 + 1, Whitespace)
        w2 == SkipSet(line, w1 + 12, Whitespace)
        w3 == SkipSet(line, w2 + 1, Whitespace)
        e  == SkipSet(line, w3 + 13, Whitespace)
        rest == SubSeq(line, e, Len(line))
        ok == /\ At(line, 1, "[")
              /\ d1 > 2
              /\ At(line, d1, "]")
              /\ w1 > d1 + 1
              /\ MatchTs(line, w1)
              /\ w2 > w1 + 12
              /\ At(line, w2, "-")
              /\ w3 > w2 + 1
              /\ MatchTs(line, w3)
              /\ At(line, w3 + 12, ":")
              /\ \A k \in 1..(Len(rest) - 1) : rest[k] # NL
    IN  IF ok
        THEN [ok |-> TRUE,
              prefix |-> SubSeq(line, 1, e - 1),
              num |-> SubSeq(line, 2, d1 - 1),
              start |-> SubSeq(line, w1, w1 + 11),
              end |-> SubSeq(line, w3, w3 + 11),
              text |-> IF Len(rest) > 0 /\ rest[Len(rest)] = NL
                       THEN SubSeq(rest, 1, Len(rest) - 1) ELSE rest]
        ELSE [ok |-> FALSE, prefix |-> <<>>, num |-> <<>>, start |-> <<>>,
              end |-> <<>>, text |-> <<>>]

\* SPLIT_PATTERN.match(record_id) for ^(.+)_(\d+)$ : the greedy (.+) is
\* everything before the last underscore, which must be followed by digits only
SplitPatternMatch(record_id) ==
    LET s == IF Len(record_id) > 0 /\ record_id[Len(record_id)] = NL
             THEN SubSeq(record_id, 1, Len(record_id) - 1) ELSE record_id
        us == {i \in 2..(Len(s) - 1) :
                  /\ s[i] = "_"
                  /\ \A k \in (i + 1)..Len(s) : IsDigit(s[k])
                  /\ \A k \in 1..(i - 1) : s[k] # NL}
    IN  IF us = {}
        THEN [ok |-> FALSE, base |-> <<>>, idx |-> 0]
        ELSE LET i == CHOOSE j \in us : \A k \in us : k <= j
             IN  [ok |-> TRUE,
                  base |-> SubSeq(s, 1, i - 1),
                  idx |-> StrToInt(SubSeq(s, i + 1, Len(s)))]

(***************************************************************************)
(* transcription_reviewer: token counting and batch-entry construction     *)
(***************************************************************************)

MIN_ENTRIES == 100

MAX_TOKENS == 60000

\* count_content_tokens whose fallback forgets the factor 4
count_content_tokens_words(content, enc) ==
    IF enc.raises THEN WordCount(content) ELSE enc.n

\* TokenCounter.count_content_tokens: enc is what self.encoding.encode(content)
\* does, [raises |-> TRUE] or [raises |-> FALSE, n |-> number of tokens]
count_content_tokens(content, enc) ==
    IF enc.raises THEN WordCount(content) * 4 ELSE enc.n

\* the for-loop of _split_content_by_tokens.  current_estimated_tokens is
\* m * total_tokens / total_lines, m the number of lines of the current chunk;
\* the comparison with max_tokens is done on the exact fraction.
RECURSIVE SplitLoop(_, _, _, _, _, _)
SplitLoop(lines, i, chunks, cur, total_tokens, max_tokens) ==
    LET L == Len(lines)
        m == Len(cur)
    IN  IF i > L
        THEN IF m > 0
             THEN Append(chunks, [content |-> Join(cur, NL),
                                  tokens |-> (m * total_tokens) \div L])
             ELSE chunks
        ELSE IF (m + 1) * total_tokens > max_tokens * L /\ m > 0
             THEN SplitLoop(lines, i + 1,
                            Append(chunks, [content |-> Join(cur, NL),
                                            tokens |-> (m * total_tokens) \div L]),
                            <<lines[i]>>, total_tokens, max_tokens)
             ELSE SplitLoop(lines, i + 1, chunks, Append(cur, lines[i]),
                            total_tokens, max_tokens)

\* a split over the lines of the content as it is, not stripped
_split_content_by_tokens_unstripped(content, total_tokens, max_tokens) ==
    LET lines == Split(content, NL)
    IN  IF total_tokens <= max_tokens
        THEN <<[content |-> Strip(content), tokens |-> total_tokens]>>
        ELSE SplitLoop(lines, 1, <<>>, <<>>, total_tokens, max_tokens)

\* a split that fills its chunks up to twice the limit
_split_content_by_tokens_double(content, total_tokens, max_tokens) ==
    LET lines == Split(Strip(content), NL)
    IN  IF total_tokens <= max_tokens
        THEN <<[content |-> Strip(content), tokens |-> total_tokens]>>
        ELSE SplitLoop(lines, 1, <<>>, <<>>, total_tokens, 2 * max_tokens)

_split_content_by_tokens(content, total_tokens, max_tokens) ==
    LET lines == Split(Strip(content), NL)
    IN  IF Len(lines) = 0
        THEN <<[content |-> Strip(content), tokens |-> total_tokens]>>
        ELSE IF total_tokens <= max_tokens
        THEN <<[content |-> Strip(content), tokens |-> total_tokens]>>
        ELSE SplitLoop(lines, 1, <<>>, <<>>, total_tokens, max_tokens)

S_dummy_ == <<"d", "u", "m", "m", "y", "_">>

S_ok == <<"o", "k">>

_create_dummy_entry(index) ==
    [record_id |-> S_dummy_ \o IntToStr(index),
     system_prompt |-> S_ok,
     content |-> S_ok,
     token_count |-> 2]

\* the entries of one file with a suffix on every record_id, _1 included
FileEntries_always_suffixed(f, enc) ==
    LET total_tokens == count_content_tokens(f.content, enc)
        chunks == _split_content_by_tokens(f.content, total_tokens, MAX_TOKENS)
    IN  [i \in 1..Len(chunks) |->
            [record_id |-> f.stem \o <<"_">> \o IntToStr(i),
             system_prompt |-> f.system_prompt,
             content |-> chunks[i].content,
             token_count |-> chunks[i].tokens]]

\* the entries one file contributes (lines 118-144 of prepare_batch_entries)
FileEntries(f, enc) ==
    LET total_tokens == count_content_tokens(f.content, enc)
        chunks == _split_content_by_tokens(f.content, total_tokens, MAX_TOKENS)
    IN  [i \in 1..Len(chunks) |->
            [record_id |-> IF Len(chunks) = 1 THEN f.stem
                           ELSE f.stem \o <<"_">> \o IntToStr(i),
             system_prompt |-> f.system_prompt,
             content |-> chunks[i].content,
             token_count |-> chunks[i].tokens]]

RECURSIVE RealEntries(_, _, _)
RealEntries(fs, encs, i) ==
    IF i > Len(fs) THEN <<>>
    ELSE FileEntries(fs[i], encs[i]) \o RealEntries(fs, encs, i + 1)

\* prepare_batch_entries whose padding loop runs once too often
prepare_batch_entries_overpadded(fs, encs) ==
    LET real == RealEntries(fs, encs, 1)
        real_count == Len(real)
    IN  real \o [j \in 1..(IF MIN_ENTRIES >= real_count
                           THEN MIN_ENTRIES - real_count + 1 ELSE 0) |->
                    _create_dummy_entry(real_count + j - 1)]

\* prepare_batch_entries that puts the padding before the entries of the files
prepare_batch_entries_padding_first(fs, encs) ==
    LET real == RealEntries(fs, encs, 1)
        real_count == Len(real)
    IN  [j \in 1..(IF MIN_ENTRIES > real_count
                   THEN MIN_ENTRIES - real_count ELSE 0) |->
            _create_dummy_entry(real_count + j - 1)] \o real

\* prepare_batch_entries(files, token_counter); encs[i] is what the tokenizer
\* does with the content of files[i]
prepare_batch_entries(fs, encs) ==
    LET real == RealEntries(fs, encs, 1)
        real_count == Len(real)
    IN  real \o [j \in 1..(IF MIN_ENTRIES > real_count
                           THEN MIN_ENTRIES - real_count ELSE 0) |->
                    _create_dummy_entry(real_count + j - 1)]

(***************************************************************************)
(* post_inference: batch output parsing, regrouping, reinjection           *)
(***************************************************************************)

\* one logger call: level, message template and its formatted arguments
LogEntry(level, msg, args) == [level |-> level, msg |-> msg, args |-> args]

NoneValue == [none |-> TRUE, text |-> <<>>]

Some(text) == [none |-> FALSE, text |-> text]

\* a pairing that gives every corrected line the prefix of the first
\* timed line
InjectLines_first_prefix(fixed_lines, timed_lines) ==
    [i \in 1..Len(fixed_lines) |->
        LET match == TimedLineMatch(timed_lines[1])
        IN  IF match.ok THEN match.prefix \o fixed_lines[i] ELSE fixed_lines[i]]

\* lines 44-53 of inject_timestamps: pair the lines positionally
InjectLines(fixed_lines, timed_lines) ==
    [i \in 1..Len(fixed_lines) |->
        LET match == TimedLineMatch(timed_lines[i])
        IN  IF match.ok THEN match.prefix \o fixed_lines[i] ELSE fixed_lines[i]]

\* inject_timestamps that gives up only when there are more corrected lines
\* than timed lines
inject_timestamps_lenient(fixed_text, timed_content) ==
    LET fixed_lines == NonEmptyLines(fixed_text)
        timed_lines == NonEmptyLines(timed_content)
    IN  IF Len(fixed_lines) > Len(timed_lines)
        THEN NoneValue
        ELSE Some(Join(InjectLines(fixed_lines, timed_lines), NL))

\* inject_timestamps(fixed_text, timed_content) -> str | None
inject_timestamps(fixed_text, timed_content) ==
    LET fixed_lines == NonEmptyLines(fixed_text)
        timed_lines == NonEmptyLines(timed_content)
    IN  IF Len(fixed_lines) # Len(timed_lines)
        THEN NoneValue
        ELSE Some(Join(InjectLines(fixed_lines, timed_lines), NL))

\* the logger.warning of inject_timestamps (lines 36-41)
inject_timestamps_log(fixed_text, timed_content) ==
    LET fixed_lines == NonEmptyLines(fixed_text)
        timed_lines == NonEmptyLines(timed_content)
    IN  IF Len(fixed_lines) # Len(timed_lines)
        THEN <<LogEntry("warning", "Line count mismatch: fixed=%d, original=%d",
                        <<IntToStr(Len(fixed_lines)), IntToStr(Len(timed_lines))>>)>>
        ELSE <<>>

S_WEBVTT == <<"W", "E", "B", "V", "T", "T">>

S_arrow == <<" ", "-", "-", ">", " ">>

\* the cue lines convert_to_vtt appends for the input lines from i on
RECURSIVE VttCueLines(_, _)
VttCueLines(lines, i) ==
    IF i > Len(lines) THEN <<>>
    ELSE LET line == Strip(lines[i])
             match == TimedLineMatch(line)
         IN  IF Len(line) = 0 THEN VttCueLines(lines, i + 1)
             ELSE IF match.ok
             THEN <<match.num, match.start \o S_arrow \o match.end, match.text, <<>> >>
                  \o VttCueLines(lines, i + 1)
             ELSE VttCueLines(lines, i + 1)

convert_to_vtt(content) ==
    Join(<<S_WEBVTT, <<>> >> \o VttCueLines(Split(Strip(content), NL), 1), NL)

\* A line of the JSONL output of the batch job, after json.loads:
\*   [kind |-> "blank"]                       a blank line
\*   [kind |-> "garbage"]                     json.loads raises JSONDecodeError
\*   [kind |-> "json", recordId, content]     content = the texts of
\*                                            modelOutput.content (possibly empty)
\* the lines for which the loop body of parse_batch_output reaches records.append
IsRealRecord(data) ==
    /\ data.kind = "json"
    /\ ~StartsWith(data.recordId, S_dummy_)
    /\ Len(data.content) > 0
    /\ Len(data.content[1]) > 0

parse_batch_output(lines) ==
    LET kept == SelectSeq(lines, IsRealRecord)
    IN  [i \in 1..Len(kept) |->
            [record_id |-> kept[i].recordId, fixed_text |-> kept[i].content[1]]]

\* the lines for which the loop body of parse_batch_output logs a warning
IsWarnedLine(data) ==
    \/ data.kind = "garbage"
    \/ /\ data.kind = "json"
       /\ ~StartsWith(data.recordId, S_dummy_)
       /\ (Len(data.content) = 0 \/ Len(data.content[1]) = 0)

parse_batch_output_log(lines) ==
    LET warned == SelectSeq(lines, IsWarnedLine)
    IN  [i \in 1..Len(warned) |->
            IF warned[i].kind = "garbage"
            THEN LogEntry("warning", "Failed to parse JSONL line: %s", <<>>)
            ELSE IF Len(warned[i].content) = 0
            THEN LogEntry("warning", "No content in model output for record: %s",
                          <<warned[i].recordId>>)
            ELSE LogEntry("warning", "Empty text in model output for record: %s",
                          <<warned[i].recordId>>)]
        \o <<LogEntry("info", "Parsed %d real records from batch output",
                      <<IntToStr(Len(parse_batch_output(lines)))>>)>>

\* groups[key].append(item) on a defaultdict(list); a dict keeps insertion order
GroupAppend(groups, key, item) ==
    IF \E p \in 1..Len(groups) : groups[p].stem = key
    THEN [p \in 1..Len(groups) |->
             IF groups[p].stem = key
             THEN [groups[p] EXCEPT !.chunks = Append(@, item)]
             ELSE groups[p]]
    ELSE Append(groups, [stem |-> key, chunks |-> <<item>>])

\* the first loop of group_split_records (lines 107-114)
RECURSIVE BuildGroups(_, _, _)
BuildGroups(records, i, groups) ==
    IF i > Len(records) THEN groups
    ELSE LET record == records[i]
             match == SplitPatternMatch(record.record_id)
         IN  IF match.ok
             THEN BuildGroups(records, i + 1,
                      GroupAppend(groups, match.base,
                                  [idx |-> match.idx, text |-> record.fixed_text]))
             ELSE BuildGroups(records, i + 1,
                      GroupAppend(groups, record.record_id,
                                  [idx |-> 0, text |-> record.fixed_text]))

\* insert item after every element whose key is <= its key
RECURSIVE InsertSorted(_, _)
InsertSorted(sorted, item) ==
    IF Len(sorted) = 0 THEN <<item>>
    ELSE IF sorted[Len(sorted)].idx <= item.idx THEN Append(sorted, item)
    ELSE Append(InsertSorted(SubSeq(sorted, 1, Len(sorted) - 1), item),
                sorted[Len(sorted)])

\* chunks.sort(key=lambda x: x[0]): list.sort is stable
RECURSIVE SortChunks(_)
SortChunks(chunks) ==
    IF Len(chunks) = 0 THEN <<>>
    ELSE InsertSorted(SortChunks(SubSeq(chunks, 1, Len(chunks) - 1)),
                      chunks[Len(chunks)])

ChunkTexts(chunks) == [i \in 1..Len(chunks) |-> chunks[i].text]

\* group_split_records without its chunks.sort: the chunks of a group are
\* joined in arrival order
group_split_records_unsorted(records) ==
    LET groups == BuildGroups(records, 1, <<>>)
    IN  [p \in 1..Len(groups) |->
            [stem |-> groups[p].stem,
             text |-> Join(ChunkTexts(groups[p].chunks), NL)]]

\* group_split_records(records): the dict stem -> merged text, as the
\* sequence of its items in insertion order
group_split_records(records) ==
    LET groups == BuildGroups(records, 1, <<>>)
    IN  [p \in 1..Len(groups) |->
            [stem |-> groups[p].stem,
             text |-> Join(ChunkTexts(SortChunks(groups[p].chunks)), NL)]]

(***************************************************************************)
(* gpu_instance: the text and timed-text files of a transcription          *)
(***************************************************************************)

\* f"{n:02d}"
Pad2(n) == IF n < 10 THEN <<"0">> \o IntToStr(n) ELSE IntToStr(n)

\* three digits after the decimal point
Pad3(n) == IF n < 10 THEN <<"0", "0">> \o IntToStr(n)
           ELSE IF n < 100 THEN <<"0">> \o IntToStr(n) ELSE IntToStr(n)

\* format_timestamp(seconds); the time t is given in units of 0.1 ms.  The
\* seconds field is seconds % 60 rounded to three decimals by the format "06.3f".
format_timestamp(t) ==
    LET hours == t \div 36000000
        minutes == (t % 36000000) \div 600000
        millis == ((t % 600000) + 5) \div 10
    IN  Pad2(hours) \o <<":">> \o Pad2(minutes) \o <<":">>
        \o Pad2(millis \div 1000) \o <<".">> \o Pad3(millis % 1000)

\* segments_to_text: "\n".join(segment.text for segment in segments)
segments_to_text(segments) ==
    Join([i \in 1..Len(segments) |-> segments[i].text], NL)

\* segments_to_timed_text: one "[index] start - end: text" line per segment
segments_to_timed_text(segments) ==
    Join([i \in 1..Len(segments) |->
            <<"[">> \o IntToStr(segments[i].index) \o <<"]", " ">>
            \o format_timestamp(segments[i].start) \o <<" ", "-", " ">>
            \o format_timestamp(segments[i].end) \o <<":", " ">>
            \o segments[i].text], NL)

(***************************************************************************)
(* post_inference: S3 wrapper, process_record                              *)
(***************************************************************************)

S_time == <<".", "t", "i", "m", "e">>

S_txt == <<".", "t", "x", "t">>

S_vtt == <<".", "v", "t", "t">>

S_mp3 == <<".", "m", "p", "3">>

S_no_timing_txt == <<".", "n", "o", "_", "t", "i", "m", "i", "n", "g">> \o S_txt

S_pre_fix_time == <<".", "p", "r", "e", "-", "f", "i", "x">> \o S_time

\* a bucket is a function from its keys to the contents stored under them
EmptyBucket == [k \in {} |-> <<>>]

\* the effect of a successful put_object on a bucket
BucketPut(bucket, key, content) ==
    [k \in (DOMAIN bucket) \cup {key} |-> IF k = key THEN content ELSE bucket[k]]

\* the effect of a successful delete_objects_by_prefix on a bucket
BucketDeletePrefix(bucket, prefix) ==
    [k \in {q \in DOMAIN bucket : ~StartsWith(q, prefix)} |-> bucket[k]]

\* S3Client.get_object_content: None when get_object raises ClientError
get_object_content(bucket, key, fails) ==
    IF fails \/ key \notin DOMAIN bucket THEN NoneValue ELSE Some(bucket[key])

\* bool(x) of a str | None value
Truthy(v) == ~v.none /\ Len(v.text) > 0

\* the VTT built from the original timed text whatever inject_timestamps returned
vtt_content_original(timed_result, timed_content) ==
    convert_to_vtt(timed_content)

\* lines 165-170 of process_record: the VTT is built from the reinjected text,
\* from the original timed text when there is none
vtt_content(timed_result, timed_content) ==
    IF Truthy(timed_result) THEN convert_to_vtt(timed_result.text)
    ELSE convert_to_vtt(timed_content)

\* lines 159-185 of process_record: the uploads, given the timed text, what
\* inject_timestamps returned for it and what it logged
process_record_uploads(stem, fixed_text, obucket, fault, timed_content, timed_result, log1) ==
    LET txt_key == stem \o S_txt
        no_timing_key == stem \o S_no_timing_txt
        vtt_key == stem \o S_vtt
        ob1 == BucketPut(obucket, txt_key, fixed_text)
        fallback == ~Truthy(timed_result)
        log2 == log1 \o
                (IF fallback
                 THEN <<LogEntry("warning",
                          "Line count mismatch for %s, using original .time file for VTT",
                          <<stem>>)>>
                 ELSE <<LogEntry("info", "Timestamps injected successfully for %s",
                                 <<stem>>)>>)
        ob2 == IF fallback THEN BucketPut(ob1, no_timing_key, fixed_text) ELSE ob1
        log3 == log2 \o
                (IF fallback
                 THEN <<LogEntry("info", "Saved no_timing to s3://%s/%s",
                                 <<no_timing_key>>)>>
                 ELSE <<>>)
    IN  IF fault = "put_txt"
        THEN [success |-> FALSE, output_bucket |-> obucket, timed_result |-> timed_result,
              injected |-> TRUE,
              log |-> log1 \o <<LogEntry("error", "Failed to save TXT to s3://%s/%s",
                                         <<txt_key>>)>>]
        ELSE IF fallback /\ fault = "put_no_timing"
        THEN [success |-> FALSE, output_bucket |-> ob1, timed_result |-> timed_result,
              injected |-> TRUE,
              log |-> log2 \o <<LogEntry("error", "Failed to save no_timing to s3://%s/%s",
                                         <<no_timing_key>>)>>]
        ELSE IF fault = "put_vtt"
        THEN [success |-> FALSE, output_bucket |-> ob2, timed_result |-> timed_result,
              injected |-> TRUE,
              log |-> log3 \o <<LogEntry("error", "Failed to save VTT to s3://%s/%s",
                                         <<vtt_key>>)>>]
        ELSE [success |-> TRUE,
              output_bucket |-> BucketPut(ob2, vtt_key,
                                          vtt_content(timed_result, timed_content)),
              timed_result |-> timed_result,
              injected |-> TRUE,
              log |-> log3 \o <<LogEntry("info", "Saved VTT to s3://%s/%s",
                                         <<vtt_key>>)>>]

\* lines 148-157 of process_record: the .time file is read; the call ends there
\* when it has no content
process_record_timed(stem, fixed_text, obucket, fault, timed) ==
    IF ~Truthy(timed)
    THEN [success |-> FALSE, output_bucket |-> obucket, timed_result |-> NoneValue,
          injected |-> FALSE,
          log |-> <<LogEntry("error", "Failed to read time file: s3://%s/%s",
                             <<stem \o S_time>>)>>]
    ELSE process_record_uploads(stem, fixed_text, obucket, fault, timed.text,
                                inject_timestamps(fixed_text, timed.text),
                                inject_timestamps_log(fixed_text, timed.text))

\* BatchResultProcessor.process_record: fault names the S3 call that raises
\* ClientError during this call ("none" if there is none).  The result holds
\* the return value, the output bucket afterwards, the log entries written and
\* what inject_timestamps returned.
process_record(stem, fixed_text, tbucket, obucket, fault) ==
    process_record_timed(stem, fixed_text, obucket, fault,
        get_object_content(tbucket, stem \o S_time, fault = "get_time"))
(***************************************************************************)
(* Bounds and inputs                                                       *)
(***************************************************************************)

\* most documents in one review run
MaxFiles == 2

\* most lines of an ordinary document
MaxLines == 3

\* the batch output may list the records rotated by up to MaxRot places
MaxRot == 1

\* most S3 / SQS calls that fail during one run of process_batch_output
MaxFaults == 1

Letters == <<"p", "q", "r", "s", "t", "u", "v", "w", "x", "y", "z">>

\* the segments of a transcription with n segments of two seconds each
Segments(n) ==
    [i \in 1..n |-> [index |-> i, start |-> (i - 1) * 20000, end |-> i * 20000,
                     text |-> <<Letters[((i - 1) % Len(Letters)) + 1]>>]]

S_prompt == <<"f", "i", "x">>

Stem_a == <<"a">>

Stem_b == <<"b">>

Stem_a_1 == <<"a", "_", "1">>

Stem_dummy_a == <<"d", "u", "m", "m", "y", "_", "a">>

Tokenized(n) == [raises |-> FALSE, n |-> n]

TokenizerRaises == [raises |-> TRUE]

\* a document: its stem, its number of segments and what the tokenizer does
Doc(stem, n, enc) == [stem |-> stem, n |-> n, enc |-> enc, blank |-> FALSE]

\* a document whose transcription ends with a segment without text
BlankDoc(stem, n, enc) == [stem |-> stem, n |-> n, enc |-> enc, blank |-> TRUE]

\* the segments of the transcription of a document
SegmentsOf(d) ==
    IF d.blank
    THEN Append(Segments(d.n), [index |-> d.n + 1, start |-> d.n * 20000,
                                end |-> (d.n + 1) * 20000, text |-> <<>>])
    ELSE Segments(d.n)

\* token counts: under the limit, and so far over it that each line is a chunk
Under == MAX_TOKENS \div 100

Over(n) == (MAX_TOKENS + 1) * n

\* sequences of at most max documents of pool with pairwise distinct stems
DocLists(pool, max) ==
    {l \in UNION {[1..k -> pool] : k \in 0..max} :
        \A i, j \in 1..Len(l) : i # j => l[i].stem # l[j].stem}

\* the TranscriptionFile process_transcriptions builds for a document
FileOf(d) ==
    [stem |-> d.stem,
     content |-> segments_to_text(SegmentsOf(d)),
     system_prompt |-> S_prompt]

\* the transcription bucket holds {stem}.txt and {stem}.time of every document
RECURSIVE TranscriptionBucketOf(_, _)
TranscriptionBucketOf(ds, i) ==
    IF i > Len(ds) THEN EmptyBucket
    ELSE BucketPut(
            BucketPut(TranscriptionBucketOf(ds, i + 1),
                      ds[i].stem \o S_txt, segments_to_text(SegmentsOf(ds[i]))),
            ds[i].stem \o S_time, segments_to_timed_text(SegmentsOf(ds[i])))

RECURSIVE AudioBucketOf(_, _)
AudioBucketOf(ds, i) ==
    IF i > Len(ds) THEN EmptyBucket
    ELSE BucketPut(AudioBucketOf(ds, i + 1), ds[i].stem \o S_mp3, <<>>)

(***************************************************************************)
(* State                                                                   *)
(***************************************************************************)

VARIABLES
    pc,                   \* position of the run
    docs,                 \* the documents of the run (stem, size, tokenizer)
    files,                \* list[TranscriptionFile] given to prepare_batch_entries
    entries,              \* list[BatchEntry] returned by prepare_batch_entries
    review_log,           \* log entries of transcription_reviewer
    batch_output,         \* lines of the .jsonl.out file of the batch job
    records,              \* list[BatchOutputRecord] of parse_batch_output
    merged,               \* items of the dict of group_split_records
    next_stem,            \* position of the for loop over merged.items()
    transcription_bucket,
    audio_bucket,
    output_bucket,
    sqs,                  \* messages sent to the queue
    result,               \* ProcessResult counters
    log,                  \* log entries of post_inference
    calls,                \* one record per finished process_record call
    faults,               \* S3 / SQS calls that have failed so far
    fixed_text,           \* arguments and return value of one call of
    timed_content,        \*   inject_timestamps
    timed_result,
    words,                \* word list of the stable_whisper JSON file
    vtt_file,             \* contents of {stem}.vtt and {stem}.srt
    srt_file,
    analysis_result,      \* return value of evaluate_alignment
    analysis_file,        \* contents of {stem}.analysis (None if not written)
    align_log,            \* log entries of gpu_timestamp
    review_result,        \* ReviewResult returned by process_transcriptions
    batch_inputs,         \* batch input files uploaded to the batch bucket
    batch_jobs,           \* batch jobs created, each with its input
    worker,               \* the worker that runs: "transcription" or "alignment"
    sqs_queue,            \* raw messages of the worker's SQS queue
    messages,             \* messages of receive_messages not yet handled
    message_result,       \* outcome of the last process_message call
    events,               \* calls of the worker in the order they happened
    success_count,
    fail_count,
    collected,            \* list[SegmentData] of collect_segments
    timed_text,           \* what segments_to_timed_text returned for them
    vtt_text,             \* what convert_to_vtt returned for the timed text
    reinjected,           \* what inject_timestamps returned for their plain text
    seconds,              \* argument of format_timestamp, in units of 0.1 ms
    timestamp,            \* what format_timestamp returned for it
    parsed,               \* what parse_timestamp returned for that, in units of 0.1 ms
    loops                 \* the worker loops that poll one queue: position, messages, counters

review_vars == <<docs, files, entries, review_log>>

batch_vars == <<batch_output, records, merged>>

process_vars == <<next_stem, transcription_bucket, audio_bucket, output_bucket,
                  sqs, result, log, calls, faults>>

inject_vars == <<fixed_text, timed_content, timed_result>>

align_vars == <<words, vtt_file, srt_file, analysis_result, analysis_file, align_log>>

submit_vars == <<review_result, batch_inputs, batch_jobs>>

worker_vars == <<worker, sqs_queue, messages, message_result, events,
                 success_count, fail_count>>

format_vars == <<collected, timed_text, vtt_text, reinjected, seconds, timestamp, parsed>>

pool_vars == <<loops>>

handler_vars == <<submit_vars, worker_vars, format_vars, pool_vars>>

vars == <<pc, review_vars, batch_vars, process_vars, inject_vars, align_vars, handler_vars>>

ZeroResult == [total_records |-> 0, processed |-> 0, failed |-> 0, cleaned_up |-> 0]

\* no review run, no batch job and no post-inference run
NoPipeline ==
    /\ docs = <<>>
    /\ files = <<>>
    /\ entries = <<>>
    /\ review_log = <<>>
    /\ batch_output = <<>>
    /\ records = <<>>
    /\ merged = <<>>
    /\ next_stem = 1
    /\ transcription_bucket = EmptyBucket
    /\ audio_bucket = EmptyBucket
    /\ output_bucket = EmptyBucket
    /\ sqs = <<>>
    /\ result = ZeroResult
    /\ log = <<>>
    /\ calls = <<>>
    /\ faults = 0

\* no call of inject_timestamps on its own
NoInject ==
    /\ fixed_text = <<>>
    /\ timed_content = <<>>
    /\ timed_result = NoneValue

\* no alignment run
NoAlign ==
    /\ words = <<>>
    /\ vtt_file = <<>>
    /\ srt_file = <<>>
    /\ analysis_result = [none |-> TRUE, rolling_avg_method |-> -1, cusum_method |-> -1]
    /\ analysis_file = [none |-> TRUE, rolling_avg_method |-> -1, cusum_method |-> -1]
    /\ align_log = <<>>

\* ReviewResult (None while process_transcriptions has not returned)
NoReviewResult ==
    [none |-> TRUE, total_found |-> 0, fixed |-> 0, failed |-> 0, batch_job_arn |-> FALSE]

\* result of process_message (None while it has not been called)
NoMessageResult ==
    [none |-> TRUE, raised |-> FALSE, source_key |-> <<>>, success |-> FALSE,
     vtt_key |-> NoneValue, text_key |-> NoneValue, timed_key |-> NoneValue]

\* no pool of worker loops
NoPool == loops = <<>>

\* no worker runs
NoWorker ==
    /\ worker = "none"
    /\ sqs_queue = <<>>
    /\ messages = <<>>
    /\ message_result = NoMessageResult
    /\ events = <<>>
    /\ success_count = 0
    /\ fail_count = 0

\* no call of the formatters
NoFormat ==
    /\ collected = <<>>
    /\ timed_text = NoneValue
    /\ vtt_text = NoneValue
    /\ reinjected = NoneValue
    /\ seconds = 0
    /\ timestamp = NoneValue
    /\ parsed = [none |-> TRUE, v |-> 0]

\* no call of a handler
NoHandlers ==
    /\ review_result = NoReviewResult
    /\ batch_inputs = <<>>
    /\ batch_jobs = <<>>
    /\ NoWorker
    /\ NoFormat
    /\ NoPool

\* a review run over the documents of doclist is about to build its batch
InitOf(doclist) ==
    /\ pc = "review"
    /\ docs = doclist
    /\ files = [i \in 1..Len(doclist) |-> FileOf(doclist[i])]
    /\ entries = <<>>
    /\ review_log = <<>>
    /\ batch_output = <<>>
    /\ records = <<>>
    /\ merged = <<>>
    /\ next_stem = 1
    /\ transcription_bucket = TranscriptionBucketOf(doclist, 1)
    /\ audio_bucket = AudioBucketOf(doclist, 1)
    /\ output_bucket = EmptyBucket
    /\ sqs = <<>>
    /\ result = ZeroResult
    /\ log = <<>>
    /\ calls = <<>>
    /\ faults = 0
    /\ NoInject
    /\ NoAlign
    /\ NoHandlers

(***************************************************************************)
(* transcription_reviewer: building the batch                              *)
(***************************************************************************)

\* the log entries prepare_batch_entries and count_content_tokens write for
\* the files from i on
RECURSIVE PrepareLog(_, _)
PrepareLog(ds, i) ==
    IF i > Len(ds) THEN <<>>
    ELSE LET f == FileOf(ds[i])
             total_tokens == count_content_tokens(f.content, ds[i].enc)
             chunks == _split_content_by_tokens(f.content, total_tokens, MAX_TOKENS)
         IN  (IF ds[i].enc.raises
              THEN <<LogEntry("warning", "Token counting failed, using word estimate: %s",
                              <<>>)>>
              ELSE <<>>)
             \o <<LogEntry("info", "File %s: %d tokens (limit: %d)",
                           <<f.stem, IntToStr(total_tokens), IntToStr(MAX_TOKENS)>>)>>
             \o (IF Len(chunks) > 1
                 THEN <<LogEntry("info", "Split %s into %d chunks",
                                 <<f.stem, IntToStr(Len(chunks))>>)>>
                 ELSE <<>>)
             \o PrepareLog(ds, i + 1)

\* process_transcriptions calls prepare_batch_entries on the loaded files
PrepareBatch ==
    /\ pc = "review"
    /\ entries' = prepare_batch_entries(files, [i \in 1..Len(docs) |-> docs[i].enc])
    /\ review_log' = review_log \o PrepareLog(docs, 1)
    /\ pc' = "submitted"
    /\ UNCHANGED <<handler_vars, docs, files, batch_vars, process_vars, inject_vars, align_vars>>

(***************************************************************************)
(* The batch job (Bedrock): one output line per entry, in any order        *)
(***************************************************************************)

Rotate(s, r) == [i \in 1..Len(s) |-> s[((i - 1 + r) % Len(s)) + 1]]

Reverse(s) == [i \in 1..Len(s) |-> s[Len(s) + 1 - i]]

\* the text with every newline replaced by a space (the model joined the lines)
JoinedLines(text) == [i \in 1..Len(text) |-> IF text[i] = NL THEN " " ELSE text[i]]

\* the text with every letter replaced by "k" (the model corrected every word)
CorrectedWords(text) == [i \in 1..Len(text) |-> IF text[i] = NL THEN NL ELSE "k"]

\* what the model answers: the content unchanged, corrected line by line or
\* with its lines joined
AnswerModes == {"echo", "correct", "join_lines"}

\* what can be wrong with the output line of the first entry: an empty text,
\* no content element, not JSON at all
DefectModes == {"empty_text", "no_content", "garbage"}

BatchModes == AnswerModes \cup DefectModes

\* the text of the model's answer to an entry
Answer(content, mode) ==
    IF mode = "join_lines" THEN JoinedLines(content)
    ELSE IF mode = "correct" THEN CorrectedWords(content)
    ELSE content

\* the output line for entry i
OutputLine(entry, i, mode) ==
    IF i = 1 /\ mode = "garbage" THEN [kind |-> "garbage"]
    ELSE IF i = 1 /\ mode = "no_content"
    THEN [kind |-> "json", recordId |-> entry.record_id, content |-> <<>>]
    ELSE IF i = 1 /\ mode = "empty_text"
    THEN [kind |-> "json", recordId |-> entry.record_id, content |-> << <<>> >>]
    ELSE [kind |-> "json", recordId |-> entry.record_id,
          content |-> <<Answer(entry.content, mode)>>]

BedrockBatch(rot, rev, mode) ==
    /\ pc = "submitted"
    /\ LET lines == [i \in 1..Len(entries) |-> OutputLine(entries[i], i, mode)]
           rotated == Rotate(lines, rot)
       IN  batch_output' = (IF rev THEN Reverse(rotated) ELSE rotated)
                           \o <<[kind |-> "blank"]>>
    /\ pc' = "completed"
    /\ UNCHANGED <<handler_vars, review_vars, records, merged, process_vars, inject_vars, align_vars>>

(***************************************************************************)
(* post_inference: process_batch_output                                    *)
(***************************************************************************)

\* lines 96-110: read the output file, parse it and group the records
ParseAndGroup(read_fails) ==
    /\ pc = "completed"
    /\ IF read_fails
       THEN /\ faults < MaxFaults
            /\ faults' = faults + 1
            /\ log' = Append(log, LogEntry("error", "Failed to read batch output file", <<>>))
            /\ pc' = "done"
            /\ UNCHANGED <<records, merged>>
       ELSE /\ records' = parse_batch_output(batch_output)
            /\ merged' = group_split_records(records')
            /\ log' = log \o parse_batch_output_log(batch_output)
                      \o <<LogEntry("info", "Processing %d stems from %d records",
                                    <<IntToStr(Len(merged')), IntToStr(Len(records'))>>)>>
            /\ pc' = "processing"
            /\ UNCHANGED faults
    /\ result' = [ZeroResult EXCEPT !.total_records = IF read_fails THEN 0 ELSE Len(merged')]
    /\ UNCHANGED <<handler_vars, review_vars, batch_output, next_stem, transcription_bucket,
                   audio_bucket, output_bucket, sqs, calls, inject_vars, align_vars>>

FaultKinds == {"get_time", "put_txt", "put_no_timing", "put_vtt", "sqs", "copy",
               "delete_audio", "delete_transcription"}

\* one iteration of the loop over merged.items() (lines 112-138)
ProcessStem(fault) ==
    /\ pc = "processing"
    /\ next_stem <= Len(merged)
    /\ fault # "none" => faults < MaxFaults
    /\ faults' = IF fault = "none" THEN faults ELSE faults + 1
    /\ \E r \in {process_record(merged[next_stem].stem, merged[next_stem].text,
                                transcription_bucket, output_bucket, fault)} :
       LET stem == merged[next_stem].stem
           text == merged[next_stem].text
           time_key == stem \o S_time
           copied == fault # "copy" /\ time_key \in DOMAIN transcription_bucket
           ob == IF copied
                 THEN BucketPut(r.output_bucket, stem \o S_pre_fix_time,
                                transcription_bucket[time_key])
                 ELSE r.output_bucket
           iteration_log == IF r.success
                            THEN r.log \o <<LogEntry("info",
                                                "Cleaned up source files for: %s", <<stem>>)>>
                            ELSE r.log
       IN  /\ calls' = Append(calls,
                   [stem |-> stem, fixed_text |-> text, fault |-> fault,
                    timed |-> get_object_content(transcription_bucket, time_key,
                                                 fault = "get_time"),
                    injected |-> r.injected,
                    timed_result |-> r.timed_result,
                    success |-> r.success,
                    log |-> iteration_log])
           /\ log' = log \o iteration_log
           /\ IF r.success
              THEN /\ output_bucket' = ob
                   /\ sqs' = IF fault = "sqs" THEN sqs
                             ELSE Append(sqs, [filename |-> stem \o S_vtt])
                   /\ audio_bucket' = IF fault = "delete_audio" THEN audio_bucket
                                      ELSE BucketDeletePrefix(audio_bucket, stem \o <<".">>)
                   /\ transcription_bucket' =
                          IF fault = "delete_transcription" THEN transcription_bucket
                          ELSE BucketDeletePrefix(transcription_bucket, stem \o <<".">>)
                   /\ result' = [result EXCEPT !.processed = @ + 1, !.cleaned_up = @ + 1]
              ELSE /\ output_bucket' = r.output_bucket
                   /\ result' = [result EXCEPT !.failed = @ + 1]
                   /\ UNCHANGED <<sqs, audio_bucket, transcription_bucket>>
    /\ next_stem' = next_stem + 1
    /\ UNCHANGED <<pc, handler_vars, review_vars, batch_vars, inject_vars, align_vars>>

\* lines 140-152: the loop is over, the result is returned
Finish ==
    /\ pc = "processing"
    /\ next_stem > Len(merged)
    /\ log' = Append(log, LogEntry("info",
                  "Processing complete: %d processed, %d failed, %d cleaned up",
                  <<IntToStr(result.processed), IntToStr(result.failed),
                    IntToStr(result.cleaned_up)>>))
    /\ pc' = "done"
    /\ UNCHANGED <<handler_vars, review_vars, batch_vars, next_stem, transcription_bucket,
                   audio_bucket, output_bucket, sqs, result, calls, faults,
                   inject_vars, align_vars>>

(***************************************************************************)
(* Specifications of the batch pipeline                                    *)
(***************************************************************************)

\* most lines of a long document: with one chunk per line, two long documents
\* give more than MIN_ENTRIES real entries
LongLines == (MIN_ENTRIES \div 2) + 1

\* the documents of a review run: short ones under and over the token limit,
\* with and without a working tokenizer, and long ones
BuildDocs ==
    {Doc(Stem_a, n, enc) :
        n \in 1..MaxLines,
        enc \in {Tokenized(Under), Tokenized(MAX_TOKENS + 1), TokenizerRaises}}
    \cup {Doc(Stem_a, n, Tokenized(Over(n))) : n \in (1..MaxLines) \cup {LongLines - 1}}
    \cup {Doc(Stem_b, n, Tokenized(Over(n))) : n \in {LongLines - 1, LongLines}}
    \cup {Doc(Stem_b, 2, TokenizerRaises), Doc(Stem_dummy_a, 1, Tokenized(Under)),
          BlankDoc(Stem_b, MaxLines, Tokenized(MAX_TOKENS + 1))}

InitBuild == \E l \in DocLists(BuildDocs, MaxFiles) : InitOf(l)

NextBuild == PrepareBatch

\* the batch build alone
SpecBuild == InitBuild /\ [][NextBuild]_vars

\* enough lines for a document with a chunk 10
ManyLines == 11

\* the documents of a run through the batch job
MergeDocs ==
    {Doc(Stem_a, 2, Tokenized(Under)), Doc(Stem_a, ManyLines, Tokenized(Over(ManyLines))),
     Doc(Stem_a_1, 1, Tokenized(Under)), Doc(Stem_b, 1, Tokenized(Under)),
     Doc(Stem_dummy_a, 1, Tokenized(Under))}
    \cup {Doc(Stem_a, n, Tokenized(Over(n))) : n \in 2..MaxLines}

InitMerge == \E l \in DocLists(MergeDocs, MaxFiles) : InitOf(l)

NextMerge ==
    \/ PrepareBatch
    \/ \E rot \in 0..MaxRot, rev \in BOOLEAN, mode \in BatchModes :
           BedrockBatch(rot, rev, mode)
    \/ ParseAndGroup(FALSE)

\* build, batch job with its output in any order, parse and regroup
SpecMerge == InitMerge /\ [][NextMerge]_vars

\* the documents of a run through the whole pipeline
PipelineDocs ==
    {Doc(Stem_a, 2, Tokenized(Under)), Doc(Stem_a, 2, Tokenized(Over(2))),
     Doc(Stem_a_1, 1, Tokenized(Under)), Doc(Stem_b, 1, Tokenized(Under))}

Init == \E l \in DocLists(PipelineDocs, MaxFiles) : InitOf(l)

Next ==
    \/ PrepareBatch
    \/ \E mode \in BatchModes : BedrockBatch(0, FALSE, mode)
    \/ \E read_fails \in BOOLEAN : ParseAndGroup(read_fails)
    \/ \E fault \in FaultKinds \cup {"none"} : ProcessStem(fault)
    \/ Finish

\* the whole pipeline, the batch output in the order of the entries
Spec == Init /\ [][Next]_vars

(***************************************************************************)
(* Specification of inject_timestamps on its own                           *)
(***************************************************************************)

\* most lines of a text given to inject_timestamps
MaxTextLines == 3

\* the timed line of segment i of a transcription
TimedLine(i) == Split(segments_to_timed_text(Segments(i)), NL)[i]

\* lines of a corrected text: empty, a word, a word with blanks around it,
\* and a line of the shape of a timed line
FixedLineKinds == {<<>>, <<"x">>, <<" ", "y", " ">>, TimedLine(MaxTextLines + 1)}

\* lines of a timed text: empty, a timed line, a line outside the grammar
TimedLineKinds == {"empty", "timed", "other"}

\* line i of a timed text, of the given kind
TimedLineOf(kind, i) ==
    IF kind = "empty" THEN <<>> ELSE IF kind = "timed" THEN TimedLine(i) ELSE <<"z">>

\* the texts of at most MaxTextLines lines of the given kinds
Texts(kinds) ==
    {Join(l, NL) : l \in UNION {[1..k -> kinds] : k \in 0..MaxTextLines}}

\* the timed texts of at most MaxTextLines lines, segment i on line i
TimedTexts ==
    {Join([i \in 1..Len(l) |-> TimedLineOf(l[i], i)], NL) :
        l \in UNION {[1..k -> TimedLineKinds] : k \in 0..MaxTextLines}}

InitInject ==
    /\ pc = "inject"
    /\ fixed_text \in Texts(FixedLineKinds)
    /\ timed_content \in TimedTexts
    /\ timed_result = NoneValue
    /\ NoPipeline
    /\ NoHandlers
    /\ NoAlign

\* one call of inject_timestamps
InjectTimestamps ==
    /\ pc = "inject"
    /\ timed_result' = inject_timestamps(fixed_text, timed_content)
    /\ pc' = "injected"
    /\ UNCHANGED <<handler_vars, review_vars, batch_vars, process_vars, fixed_text, timed_content,
                   align_vars>>

NextInject == InjectTimestamps

SpecInject == InitInject /\ [][NextInject]_vars

(***************************************************************************)
(* gpu_timestamp: alignment evaluation                                     *)
(*                                                                         *)
(* A probability is an integer number of hundredths.  moving_avg[i] is     *)
(* kept as the pair (sum, n) of the window it averages; the baseline over  *)
(* moving_avg[window : 3 * window], whose windows all hold exactly window  *)
(* values, is kept as its numerator over the denominator                   *)
(* 2 * window * window.  Comparisons are made on the exact fractions.      *)
(* Python indices start at 0, sequence indices at 1.                       *)
(***************************************************************************)

\* default window of both detectors
WINDOW == 100

\* default threshold_pct (0.5) of detect_degradation_rolling_avg, as a fraction
THRESHOLD_PCT == [num |-> 1, den |-> 2]

\* default threshold (80.0) of detect_degradation_cusum
CUSUM_THRESHOLD == 80

\* "if len(probs) < 300" of evaluate_alignment
MIN_PROBS == 300

\* an int | None value
NoneInt == [none |-> TRUE, v |-> 0]

SomeInt(v) == [none |-> FALSE, v |-> v]

\* "%d" % n
FormatD(n) == IF n < 0 THEN <<"-">> \o IntToStr(0 - n) ELSE IntToStr(n)

\* sum of p[lo..hi]
RECURSIVE SumRange(_, _, _)
SumRange(p, lo, hi) ==
    IF lo > hi THEN 0
    ELSE IF lo = hi THEN p[lo]
    ELSE LET mid == (lo + hi) \div 2
         IN  SumRange(p, lo, mid) + SumRange(p, mid + 1, hi)

\* _compute_moving_average whose windows start one value early
_compute_moving_average_wide(probs, window) ==
    SubSeq([j \in 1..Len(probs) |->
               LET start == IF j - window > 1 THEN j - window ELSE 1
               IN  [sum |-> SumRange(probs, start, j), n |-> j - start + 1]],
           1, Len(probs))

\* _compute_moving_average: entry i + 1 is np.mean(probs[start : i + 1])
_compute_moving_average(probs, window) ==
    SubSeq([j \in 1..Len(probs) |->
               LET start == IF j - window + 1 > 1 THEN j - window + 1 ELSE 1
               IN  [sum |-> SumRange(probs, start, j), n |-> j - start + 1]],
           1, Len(probs))

\* numerator of np.mean(moving_avg[window : window * 3])
BaselineSum(moving_avg, window) ==
    SumRange([j \in 1..Len(moving_avg) |-> moving_avg[j].sum], window + 1, 3 * window)

\* moving_avg[i] < baseline * threshold_pct
BelowThreshold(avg, baseline_sum, window, threshold_pct) ==
    avg.sum * 2 * window * window * threshold_pct.den
        < baseline_sum * threshold_pct.num * avg.n

Min(S) == CHOOSE x \in S : \A y \in S : x <= y

\* detect_degradation_rolling_avg that returns the last index under the
\* threshold instead of the first
detect_degradation_rolling_avg_last(probs, window, threshold_pct) ==
    IF Len(probs) < window * 3 THEN -1
    ELSE LET moving_avg == _compute_moving_average(probs, window)
             baseline_sum == BaselineSum(moving_avg, window)
             below == {i \in window..(Len(probs) - 1) :
                          BelowThreshold(moving_avg[i + 1], baseline_sum, window,
                                         threshold_pct)}
         IN  IF below = {} THEN -1 ELSE 0 - Min({0 - i : i \in below})

\* detect_degradation_rolling_avg(probs, window, threshold_pct)
detect_degradation_rolling_avg(probs, window, threshold_pct) ==
    IF Len(probs) < window * 3 THEN -1
    ELSE LET moving_avg == _compute_moving_average(probs, window)
             baseline_sum == BaselineSum(moving_avg, window)
             below == {i \in window..(Len(probs) - 1) :
                          BelowThreshold(moving_avg[i + 1], baseline_sum, window,
                                         threshold_pct)}
         IN  IF below = {} THEN -1 ELSE Min(below)

\* the loop body of detect_degradation_cusum with a sum that is not cut at 0
CusumStep_two_sided(moving_avg, target_sum, window, threshold, st, i) ==
    LET avg == moving_avg[i + 1]
        diff == (2 * window * window * avg.sum) \div avg.n - target_sum
        cusum_neg == st.cusum_neg + diff
    IN  IF st.ret # -1 THEN st
        ELSE IF (IF cusum_neg < 0 THEN 0 - cusum_neg ELSE cusum_neg)
                    > threshold * 2 * window * window * 100
        THEN [cusum_neg |-> cusum_neg, ret |-> i]
        ELSE [cusum_neg |-> cusum_neg, ret |-> -1]

\* one pass of the loop body of detect_degradation_cusum at index i; st holds
\* cusum_neg (times 2 * window * window, in hundredths) and the value returned
\* so far (-1 while the loop runs)
CusumStep(moving_avg, target_sum, window, threshold, st, i) ==
    LET avg == moving_avg[i + 1]
        diff == (2 * window * window * avg.sum) \div avg.n - target_sum
        cusum_neg == IF st.cusum_neg + diff < 0 THEN st.cusum_neg + diff ELSE 0
    IN  IF st.ret # -1 THEN st
        ELSE IF 0 - cusum_neg > threshold * 2 * window * window * 100
        THEN [cusum_neg |-> cusum_neg, ret |-> i]
        ELSE [cusum_neg |-> cusum_neg, ret |-> -1]

\* the loop "for i in range(lo, hi + 1)" of detect_degradation_cusum, run in
\* index order
RECURSIVE CusumLoop(_, _, _, _, _, _, _)
CusumLoop(moving_avg, target_sum, window, threshold, st, lo, hi) ==
    IF lo > hi \/ st.ret # -1 THEN st
    ELSE IF lo = hi
    THEN CusumStep(moving_avg, target_sum, window, threshold, st, lo)
    ELSE LET mid == (lo + hi) \div 2
         IN  CusumLoop(moving_avg, target_sum, window, threshold,
                       CusumLoop(moving_avg, target_sum, window, threshold, st, lo, mid),
                       mid + 1, hi)

\* detect_degradation_cusum(probs, window, threshold)
detect_degradation_cusum(probs, window, threshold) ==
    IF Len(probs) < window * 3 THEN -1
    ELSE LET moving_avg == _compute_moving_average(probs, window)
             target_sum == BaselineSum(moving_avg, window)
         IN  CusumLoop(moving_avg, target_sum, window, threshold,
                       [cusum_neg |-> 0, ret |-> -1], window, Len(probs) - 1).ret

\* key of words.sort: start_time, 0 for None
StartKey(w) == IF w.start_time.none THEN 0 ELSE w.start_time.v

\* words.sort(key=...): list.sort is stable
SortWords(ws) ==
    LET n == Len(ws)
        key == SubSeq([i \in 1..n |-> StartKey(ws[i])], 1, n)
        rank == SubSeq([i \in 1..n |->
                    Cardinality({j \in 1..n :
                        key[j] < key[i] \/ (key[j] = key[i] /\ j < i)}) + 1], 1, n)
        at == SubSeq([r \in 1..n |-> CHOOSE i \in 1..n : rank[i] = r], 1, n)
    IN  [r \in 1..n |-> ws[at[r]]]

HasProbability(w) == ~w.probability.none

\* the probabilities of the sorted words, None taken as 0 instead of left out
ValidProbs_nulls_as_zero(ws) ==
    LET sorted == SortWords(ws)
    IN  SubSeq([i \in 1..Len(ws) |->
                   IF sorted[i].probability.none THEN 0 ELSE sorted[i].probability.v],
               1, Len(ws))

\* [w["probability"] for w in words if w["probability"] is not None], sorted
ValidProbs(ws) ==
    LET kept == SelectSeq(SortWords(ws), HasProbability)
    IN  SubSeq([i \in 1..Len(kept) |-> kept[i].probability.v], 1, Len(kept))

NoReport == [none |-> TRUE, rolling_avg_method |-> -1, cusum_method |-> -1]

\* evaluate_alignment that reports as soon as one of the methods detects
evaluate_alignment_either(ws) ==
    LET probs == ValidProbs(ws)
        rolling_avg_index == detect_degradation_rolling_avg(probs, WINDOW, THRESHOLD_PCT)
        cusum_index == detect_degradation_cusum(probs, WINDOW, CUSUM_THRESHOLD)
    IN  [report |-> IF rolling_avg_index # -1 \/ cusum_index # -1
                    THEN [none |-> FALSE,
                          rolling_avg_method |-> rolling_avg_index,
                          cusum_method |-> cusum_index]
                    ELSE NoReport,
         log |-> <<>>]

\* evaluate_alignment(json_path) for a JSON file with the words ws: the
\* return value and the log entries written
evaluate_alignment(ws) ==
    IF Len(ws) = 0
    THEN [report |-> NoReport,
          log |-> <<LogEntry("warning", "No words found in JSON file: %s", <<>>)>>]
    ELSE LET probs == ValidProbs(ws)
         IN  IF Len(probs) < MIN_PROBS
             THEN [report |-> NoReport,
                   log |-> <<LogEntry("debug",
                                "Not enough probability data for analysis: %d words",
                                <<FormatD(Len(probs))>>)>>]
             ELSE LET rolling_avg_index ==
                          detect_degradation_rolling_avg(probs, WINDOW, THRESHOLD_PCT)
                      cusum_index ==
                          detect_degradation_cusum(probs, WINDOW, CUSUM_THRESHOLD)
                  IN  [report |->
                           IF rolling_avg_index # -1 /\ cusum_index # -1
                           THEN [none |-> FALSE,
                                 rolling_avg_method |-> rolling_avg_index,
                                 cusum_method |-> cusum_index]
                           ELSE NoReport,
                       log |-> <<LogEntry("info",
                                    "Degradation detection: rolling_avg=%d, cusum=%d",
                                    <<FormatD(rolling_avg_index),
                                      FormatD(cusum_index)>>)>>]

\* index of the first empty line break "\n\n" at or after i (Len(s) + 1 if none)
NextBlank(s, i) ==
    LET hits == {j \in i..(Len(s) - 1) : s[j] = NL /\ s[j + 1] = NL}
    IN  IF hits = {} THEN Len(s) + 1 ELSE Min(hits)

\* s.split("\n\n")
RECURSIVE SplitBlocksFrom(_, _)
SplitBlocksFrom(s, i) ==
    LET j == NextBlank(s, i)
    IN  IF j > Len(s) THEN <<SubSeq(s, i, Len(s))>>
        ELSE <<SubSeq(s, i, j - 1)>> \o SplitBlocksFrom(s, j + 2)

\* "\n\n".join(parts)
RECURSIVE JoinBlocks(_)
JoinBlocks(parts) ==
    IF Len(parts) = 0 THEN <<>>
    ELSE IF Len(parts) = 1 THEN parts[1]
    ELSE parts[1] \o <<NL, NL>> \o JoinBlocks(Tail(parts))

\* words_in_segment: the words of the lines of a cue block after its first
\* head lines (the timestamp; for SRT the index and the timestamp)
WordsInSegment(segment, head) ==
    LET lines == Split(segment, NL)
    IN  IF Len(lines) > head
        THEN WordCount(Join(SubSeq(lines, head + 1, Len(lines)), " "))
        ELSE 0

\* the loop over the cue blocks from i on, with its break
RECURSIVE TruncateLoop(_, _, _, _, _, _)
TruncateLoop(segments, head, word_index, i, output, cumulative_words) ==
    IF i > Len(segments)
    THEN [output |-> output, cumulative_words |-> cumulative_words]
    ELSE LET words_in_segment == WordsInSegment(segments[i], head)
         IN  IF cumulative_words + words_in_segment >= word_index
             THEN [output |-> output, cumulative_words |-> cumulative_words]
             ELSE TruncateLoop(segments, head, word_index, i + 1,
                               Append(output, segments[i]),
                               cumulative_words + words_in_segment)

\* a truncation that breaks only when the count exceeds word_index
truncate_vtt_file_keeping_boundary(content, word_index) ==
    LET parts == SplitBlocksFrom(Strip(content), 1)
        kept == TruncateLoop(Tail(parts), 1, word_index + 1, 1, <<parts[1]>>, 0)
    IN  [content |-> JoinBlocks(kept.output) \o <<NL>>,
         log |-> <<LogEntry("info", "Truncated VTT at word %d (kept %d words)",
                            <<FormatD(word_index), FormatD(kept.cumulative_words)>>)>>]

\* truncate_vtt_file: the new content of the file and the log entry
truncate_vtt_file(content, word_index) ==
    LET parts == SplitBlocksFrom(Strip(content), 1)
        kept == TruncateLoop(Tail(parts), 1, word_index, 1, <<parts[1]>>, 0)
    IN  [content |-> JoinBlocks(kept.output) \o <<NL>>,
         log |-> <<LogEntry("info", "Truncated VTT at word %d (kept %d words)",
                            <<FormatD(word_index), FormatD(kept.cumulative_words)>>)>>]

\* truncate_srt_file: the new content of the file and the log entry
truncate_srt_file(content, word_index) ==
    LET segments == SplitBlocksFrom(Strip(content), 1)
        kept == TruncateLoop(segments, 2, word_index, 1, <<>>, 0)
    IN  [content |-> JoinBlocks(kept.output) \o <<NL>>,
         log |-> <<LogEntry("info", "Truncated SRT at word %d (kept %d words)",
                            <<FormatD(word_index), FormatD(kept.cumulative_words)>>)>>]

(***************************************************************************)
(* Specification of an alignment run (aligner.py)                          *)
(***************************************************************************)

\* words on one text line of a cue, text lines of a cue
LineWords == 59

CueLines == 2

\* the onset of a drop is at index 3 * WINDOW + d, d in 0..MaxShift
MaxShift == 1

\* text line l of cue c of the subtitles of the words ws
CueLine(ws, c, l) ==
    LET lo == ((c - 1) * CueLines + (l - 1)) * LineWords + 1
        hi == IF lo + LineWords - 1 < Len(ws) THEN lo + LineWords - 1 ELSE Len(ws)
    IN  Join([i \in 1..(hi - lo + 1) |-> ws[lo + i - 1].word], " ")

\* the text lines of cue c
CueText(ws, c) ==
    LET first == (c - 1) * CueLines * LineWords + 1
        left == Len(ws) - first + 1
        count == IF left >= CueLines * LineWords THEN CueLines
                 ELSE (left + LineWords - 1) \div LineWords
    IN  [l \in 1..count |-> CueLine(ws, c, l)]

CueCount(ws) == (Len(ws) + CueLines * LineWords - 1) \div (CueLines * LineWords)

CueTimes(c) ==
    format_timestamp((c - 1) * 20000) \o S_arrow \o format_timestamp(c * 20000)

\* result.to_srt_vtt(vtt_path, word_level=False)
to_vtt(ws) ==
    JoinBlocks(<<S_WEBVTT>> \o
               [c \in 1..CueCount(ws) |-> Join(<<CueTimes(c)>> \o CueText(ws, c), NL)])
    \o <<NL>>

\* result.to_srt_vtt(srt_path, word_level=False)
to_srt(ws) ==
    JoinBlocks([c \in 1..CueCount(ws) |->
                   Join(<<IntToStr(c), CueTimes(c)>> \o CueText(ws, c), NL)])
    \o <<NL>>

\* the words of an alignment in time order: k words of probability 0.95,
\* then tail words of probability low (None if nulls); rev: the JSON file
\* lists them in reverse order
StepWords(k, tail, low, nulls, rev) ==
    LET n == k + tail
        word(i) == [word |-> <<"w">>,
                    start_time |-> SomeInt(3 * i),
                    end_time |-> SomeInt(3 * i + 2),
                    probability |-> IF i <= k THEN SomeInt(95)
                                    ELSE IF nulls THEN NoneInt ELSE SomeInt(low)]
    IN  [j \in 1..n |-> word(IF rev THEN n + 1 - j ELSE j)]

\* word list with the probabilities 0.60 for the first k words, 0.95 for the
\* next WINDOW words and 0.05 for the last 3 * WINDOW words: the moving
\* average rises over the baseline before it falls under it
RiseWords(k) ==
    [i \in 1..(k + 4 * WINDOW) |->
        [word |-> <<"w">>,
         start_time |-> SomeInt(3 * i),
         end_time |-> SomeInt(3 * i + 2),
         probability |-> IF i <= k THEN SomeInt(60)
                         ELSE IF i <= k + WINDOW THEN SomeInt(95) ELSE SomeInt(5)]]

Onsets == (3 * WINDOW)..(3 * WINDOW + MaxShift)

Tails == {WINDOW, 2 * WINDOW, 3 * WINDOW + 1}

Lows == {30, 60, 90}

AlignInputs ==
    {StepWords(k, 0, 95, FALSE, FALSE) : k \in {0, 1, 3 * WINDOW - 1}}
    \cup {StepWords(3 * WINDOW - 1, 3 * WINDOW + 1, 95, TRUE, FALSE)}
    \cup {StepWords(k, 0, 95, FALSE, rev) : k \in Onsets, rev \in BOOLEAN}
    \cup {StepWords(k, t, low, FALSE, rev) :
             k \in Onsets, t \in Tails, low \in Lows, rev \in BOOLEAN}
    \cup {StepWords(k, 3 * WINDOW + 1, 30, TRUE, FALSE) : k \in Onsets}
    \cup {RiseWords(k) : k \in Onsets}

InitAlign ==
    /\ pc = "align"
    /\ words \in AlignInputs
    /\ vtt_file = <<>>
    /\ srt_file = <<>>
    /\ analysis_result = NoReport
    /\ analysis_file = NoReport
    /\ align_log = <<>>
    /\ NoPipeline
    /\ NoHandlers
    /\ NoInject

\* save_outputs: the JSON, VTT and SRT files of the alignment are written
SaveOutputs ==
    /\ pc = "align"
    /\ vtt_file' = to_vtt(words)
    /\ srt_file' = to_srt(words)
    /\ align_log' = Append(align_log, LogEntry("info", "Output saved: %s, %s, %s", <<>>))
    /\ pc' = "saved"
    /\ UNCHANGED <<handler_vars, review_vars, batch_vars, process_vars, inject_vars, words,
                   analysis_result, analysis_file>>

\* an analysis run that writes the analysis file whatever the outcome
EvaluateAndTruncate_always_recording ==
    /\ pc = "saved"
    /\ \E r \in {evaluate_alignment(words)} :
       LET vtt == truncate_vtt_file(vtt_file, r.report.cusum_method)
           srt == truncate_srt_file(srt_file, r.report.cusum_method)
       IN  /\ analysis_result' = r.report
           /\ analysis_file' = [r.report EXCEPT !.none = FALSE]
           /\ IF r.report.none
              THEN /\ align_log' = align_log \o r.log
                   /\ UNCHANGED <<vtt_file, srt_file>>
              ELSE /\ vtt_file' = vtt.content
                   /\ srt_file' = srt.content
                   /\ align_log' = align_log \o r.log
                          \o <<LogEntry("warning",
                                   "Degradation detected: rolling_avg=%d, cusum=%d",
                                   <<FormatD(r.report.rolling_avg_method),
                                     FormatD(r.report.cusum_method)>>)>>
                          \o vtt.log \o srt.log
                          \o <<LogEntry("info", "Analysis saved: %s", <<>>)>>
    /\ pc' = "aligned"
    /\ UNCHANGED <<handler_vars, review_vars, batch_vars, process_vars, inject_vars, words>>

\* lines 135-153 of aligner.py: evaluate the alignment, truncate the VTT and
\* the SRT file at the CUSUM index and write the analysis file
EvaluateAndTruncate ==
    /\ pc = "saved"
    /\ \E r \in {evaluate_alignment(words)} :
       LET vtt == truncate_vtt_file(vtt_file, r.report.cusum_method)
           srt == truncate_srt_file(srt_file, r.report.cusum_method)
       IN  /\ analysis_result' = r.report
           /\ IF r.report.none
              THEN /\ align_log' = align_log \o r.log
                   /\ UNCHANGED <<vtt_file, srt_file, analysis_file>>
              ELSE /\ vtt_file' = vtt.content
                   /\ srt_file' = srt.content
                   /\ analysis_file' = r.report
                   /\ align_log' = align_log \o r.log
                          \o <<LogEntry("warning",
                                   "Degradation detected: rolling_avg=%d, cusum=%d",
                                   <<FormatD(r.report.rolling_avg_method),
                                     FormatD(r.report.cusum_method)>>)>>
                          \o vtt.log \o srt.log
                          \o <<LogEntry("info", "Analysis saved: %s", <<>>)>>
    /\ pc' = "aligned"
    /\ UNCHANGED <<handler_vars, review_vars, batch_vars, process_vars, inject_vars, words>>

NextAlign == SaveOutputs \/ EvaluateAndTruncate

SpecAlign == InitAlign /\ [][NextAlign]_vars


(***************************************************************************)
(* transcription_reviewer: process_transcriptions as a whole               *)
(***************************************************************************)

\* what loading one listed transcription does: content and system prompt are
\* read, get_transcription_content returns None, get_system_prompt returns None
LoadOutcomes == {"ok", "no_content", "no_prompt"}

\* what _submit_batch_job meets: nothing, BATCH_ROLE_ARN unset, the upload of
\* the batch input fails, create_batch_job returns None
SubmitOutcomes == {"ok", "no_role", "upload_fails", "create_fails"}

\* the documents process_transcriptions loads (lines 174-199), in listing order
RECURSIVE LoadedDocs(_, _, _)
LoadedDocs(ds, loads, i) ==
    IF i > Len(ds) THEN <<>>
    ELSE (IF loads[i] = "ok" THEN <<ds[i]>> ELSE <<>>) \o LoadedDocs(ds, loads, i + 1)

\* the logger.error calls of the loading loop (lines 176-185)
RECURSIVE LoadLog(_, _, _)
LoadLog(ds, loads, i) ==
    IF i > Len(ds) THEN <<>>
    ELSE (IF loads[i] = "no_content"
          THEN <<LogEntry("error", "Failed to read: %s", <<ds[i].stem \o S_txt>>)>>
          ELSE IF loads[i] = "no_prompt"
          THEN <<LogEntry("error", "Failed to get system prompt for: %s",
                          <<ds[i].stem \o S_txt>>)>>
          ELSE <<>>)
         \o LoadLog(ds, loads, i + 1)

\* create_jsonl: the statistics of the batch it writes
RECURSIVE SumTokens(_, _)
SumTokens(es, i) ==
    IF i > Len(es) THEN 0 ELSE es[i].token_count + SumTokens(es, i + 1)

IsDummyId(record_id) == StartsWith(record_id, S_dummy_)

create_jsonl(es) ==
    LET real == SelectSeq(es, LAMBDA e : ~IsDummyId(e.record_id))
    IN  [total_entries |-> Len(es),
         real_entries |-> Len(real),
         dummy_entries |-> Len(es) - Len(real),
         real_tokens |-> SumTokens(real, 1)]

\* _submit_batch_job(entries, ...): the job ARN (here: whether there is one),
\* the batch input uploaded, the job created and the log entries
_submit_batch_job(es, submit) ==
    LET stats == create_jsonl(es)
        stats_log == <<LogEntry("info",
                          "Batch stats: %d real entries, %d dummy entries, %d tokens",
                          <<IntToStr(stats.real_entries), IntToStr(stats.dummy_entries),
                            IntToStr(stats.real_tokens)>>)>>
    IN  IF submit = "no_role"
        THEN [job_arn |-> FALSE, uploaded |-> <<>>, created |-> <<>>,
              log |-> <<LogEntry("error", "BATCH_ROLE_ARN environment variable not set",
                                 <<>>)>>]
        ELSE IF submit = "upload_fails"
        THEN [job_arn |-> FALSE, uploaded |-> <<>>, created |-> <<>>,
              log |-> stats_log \o
                      <<LogEntry("error", "Failed to upload batch input to S3", <<>>)>>]
        ELSE IF submit = "create_fails"
        THEN [job_arn |-> FALSE, uploaded |-> <<es>>, created |-> <<>>,
              log |-> stats_log \o
                      <<LogEntry("info", "Uploaded batch input to s3://%s/%s", <<>>),
                        LogEntry("error", "Failed to create batch job", <<>>)>>]
        ELSE [job_arn |-> TRUE, uploaded |-> <<es>>, created |-> <<[input |-> es]>>,
              log |-> stats_log \o
                      <<LogEntry("info", "Uploaded batch input to s3://%s/%s", <<>>),
                        LogEntry("info", "Created batch job: %s", <<>>)>>]

ReviewResult(total_found, fixed, failed, batch_job_arn) ==
    [none |-> FALSE, total_found |-> total_found, fixed |-> fixed, failed |-> failed,
     batch_job_arn |-> batch_job_arn]

\* process_transcriptions: docs are the transcriptions list_transcriptions
\* finds, loads[i] what loading the i-th of them does
ProcessTranscriptions(loads, submit) ==
    /\ pc = "list"
    /\ pc' = "returned"
    /\ LET total == Len(docs)
           found_log == <<LogEntry("info", "Processing transcriptions from s3://%s/%s", <<>>),
                          LogEntry("info", "Found %d timed transcription files",
                                   <<IntToStr(total)>>)>>
       IN  IF total = 0
           THEN /\ review_result' = ReviewResult(0, 0, 0, FALSE)
                /\ review_log' = review_log \o found_log
                /\ UNCHANGED <<files, entries, batch_inputs, batch_jobs>>
           ELSE \E loaded \in {LoadedDocs(docs, loads, 1)} :
                \E es \in {prepare_batch_entries(
                               [i \in 1..Len(loaded) |-> FileOf(loaded[i])],
                               [i \in 1..Len(loaded) |-> loaded[i].enc])} :
                \E job \in {_submit_batch_job(es, submit)} :
                  LET failed_to_load == total - Len(loaded)
                      stats == create_jsonl(es)
                  IN  /\ files' = [i \in 1..Len(loaded) |-> FileOf(loaded[i])]
                      /\ entries' = es
                      /\ batch_inputs' = batch_inputs \o job.uploaded
                      /\ batch_jobs' = batch_jobs \o job.created
                      /\ review_log' = review_log \o found_log
                             \o LoadLog(docs, loads, 1)
                             \o <<LogEntry("info",
                                     "Loaded %d transcription files, %d failed to load",
                                     <<IntToStr(Len(loaded)), IntToStr(failed_to_load)>>)>>
                             \o PrepareLog(loaded, 1)
                             \o <<LogEntry("info",
                                     "Prepared %d batch entries (%d real, %d padding)",
                                     <<IntToStr(stats.total_entries),
                                       IntToStr(stats.real_entries),
                                       IntToStr(stats.dummy_entries)>>)>>
                             \o job.log
                             \o (IF job.job_arn THEN <<>>
                                 ELSE <<LogEntry("error", "Failed to create batch job",
                                                 <<>>)>>)
                      /\ review_result' =
                             IF job.job_arn
                             THEN ReviewResult(total, 0, failed_to_load, TRUE)
                             ELSE ReviewResult(total, 0, total, FALSE)
    /\ UNCHANGED <<docs, batch_vars, process_vars, inject_vars, align_vars, worker_vars, format_vars, pool_vars>>

\* the transcriptions of a review run
ReviewDocs ==
    {Doc(Stem_a, 2, Tokenized(Under)), Doc(Stem_a, 2, Tokenized(Over(2))),
     Doc(Stem_b, 1, TokenizerRaises), Doc(Stem_a_1, 1, Tokenized(Under))}

InitReview ==
    /\ pc = "list"
    /\ \E l \in DocLists(ReviewDocs, MaxFiles) :
          /\ docs = l
          /\ transcription_bucket = TranscriptionBucketOf(l, 1)
          /\ audio_bucket = AudioBucketOf(l, 1)
    /\ files = <<>>
    /\ entries = <<>>
    /\ review_log = <<>>
    /\ batch_output = <<>>
    /\ records = <<>>
    /\ merged = <<>>
    /\ next_stem = 1
    /\ output_bucket = EmptyBucket
    /\ sqs = <<>>
    /\ result = ZeroResult
    /\ log = <<>>
    /\ calls = <<>>
    /\ faults = 0
    /\ NoInject
    /\ NoAlign
    /\ NoHandlers

NextReview ==
    \E loads \in [1..Len(docs) -> LoadOutcomes] :
    \E submit \in SubmitOutcomes : ProcessTranscriptions(loads, submit)

\* one run of process_transcriptions
SpecReview == InitReview /\ [][NextReview]_vars

(***************************************************************************)
(* The GPU workers: messages (models/schemas.py)                           *)
(***************************************************************************)

\* fields of the SQSMessage model of gpu_instance that have no default
RequiredFields == {"s3_key", "language", "massechet_name", "daf_name"}

\* fields of the SQSMessage model of gpu_timestamp, all but s3_key defaulted
AlignmentFields == {"s3_key", "language", "receipt_handle"}

S_he == <<"h", "e">>

\* SQSMessage(**kwargs) of gpu_instance: a pydantic model. A required field
\* that is not given raises ValidationError; a keyword that is no field of
\* the model is ignored, so the object has the declared attributes only
SQSMessage(kwargs) ==
    IF RequiredFields \subseteq DOMAIN kwargs
    THEN [raised |-> FALSE,
          object |-> [f \in RequiredFields \cup {"receipt_handle"} |->
                         IF f \in DOMAIN kwargs THEN kwargs[f] ELSE NoneValue]]
    ELSE [raised |-> TRUE, object |-> << >>]

\* SQSMessage(**kwargs) of gpu_timestamp
AlignmentSQSMessage(kwargs) ==
    IF "s3_key" \in DOMAIN kwargs
    THEN [raised |-> FALSE,
          object |-> [f \in AlignmentFields |->
                         IF f \in DOMAIN kwargs THEN kwargs[f]
                         ELSE IF f = "language" THEN Some(S_he) ELSE NoneValue]]
    ELSE [raised |-> TRUE, object |-> << >>]

\* hasattr(object, name)
HasAttr(object, name) == name \in DOMAIN object

\* body.get(key, "")
BodyGet(body, key) == IF key \in DOMAIN body THEN body[key] ELSE Some(<<>>)

\* TranscriptionResult / AlignmentResult returned by process_message
MessageResult(source_key, success, vtt_key, text_key, timed_key) ==
    [none |-> FALSE, raised |-> FALSE, source_key |-> source_key, success |-> success,
     vtt_key |-> vtt_key, text_key |-> text_key, timed_key |-> timed_key]

\* process_message did not return: an exception left it
MessageRaised ==
    [none |-> FALSE, raised |-> TRUE, source_key |-> <<>>, success |-> FALSE,
     vtt_key |-> NoneValue, text_key |-> NoneValue, timed_key |-> NoneValue]

\* one call of a collaborator, as the worker made it
Event(op, key) == [op |-> op, key |-> key]

(***************************************************************************)
(* gpu_instance: process_message (handlers/transcription.py)               *)
(***************************************************************************)

S_timed_txt == <<".", "t", "i", "m", "e", "d">> \o S_txt

\* Path(name).stem for a name without directories: the name without its
\* last suffix (a leading dot starts no suffix)
PathStem(name) ==
    LET dots == {i \in 2..Len(name) : name[i] = "."}
    IN  IF dots = {} THEN name
        ELSE SubSeq(name, 1, (CHOOSE i \in dots : \A j \in dots : j <= i) - 1)

\* what the collaborators of one process_message call do
DownloadOutcomes == {"path", "none", "raises"}

TranscribeOutcomes == {"segments", "no_segments", "none", "raises"}

Environments ==
    [download : DownloadOutcomes, transcribe : TranscribeOutcomes,
     upload_vtt : BOOLEAN, upload_text : BOOLEAN, upload_timed : BOOLEAN,
     send : BOOLEAN]

\* s3_uploader.upload_transcription: the key of the object, or None
upload_transcription(name, uploaded) == IF uploaded THEN Some(name) ELSE NoneValue

\* sqs_publisher.publish_transcription_complete: the events of the call
publish_transcription_complete(timed_key, env) ==
    <<Event("publish_transcription_complete", timed_key)>>
    \o (IF ~timed_key.none /\ env.send THEN <<Event("send_message", timed_key)>> ELSE <<>>)

\* lines 81-107: the three uploads, the completion message and the result
process_message_uploads(s3_key, vtt_key, text_key, timed_key, env) ==
    [result |-> MessageResult(s3_key, TRUE, vtt_key, text_key, timed_key),
     events |-> <<Event("upload_transcription", vtt_key),
                  Event("upload_transcription", text_key),
                  Event("upload_transcription", timed_key)>>
                \o publish_transcription_complete(timed_key, env)]

\* lines 54-111: the body of the try statement and its except clause
process_message_try(s3_key, env) ==
    LET failure == MessageResult(s3_key, FALSE, NoneValue, NoneValue, NoneValue)
        download == <<Event("download_audio", Some(s3_key))>>
        transcribed == download \o <<Event("transcribe", Some(s3_key))>>
        stem == PathStem(s3_key)
    IN  IF env.download # "path"
        THEN [result |-> failure, events |-> download]
        ELSE IF env.transcribe # "segments"
        THEN [result |-> failure, events |-> transcribed]
        ELSE \* the uploads
             LET up == process_message_uploads(
                          s3_key,
                          upload_transcription(stem \o S_vtt, env.upload_vtt),
                          upload_transcription(stem \o S_txt, env.upload_text),
                          upload_transcription(stem \o S_timed_txt, env.upload_timed),
                          env)
             IN  [result |-> up.result, events |-> transcribed \o up.events]

\* process_message of gpu_instance: lines 46-52 read message.s3_key,
\* message.language and message.details before the try statement, so an
\* object without one of them makes the call end with AttributeError
process_message(message, env) ==
    IF ~(HasAttr(message, "s3_key") /\ HasAttr(message, "language")
         /\ HasAttr(message, "details"))
    THEN [result |-> MessageRaised, events |-> <<>>]
    ELSE process_message_try(message.s3_key.text, env)

(***************************************************************************)
(* gpu_timestamp: process_message (handlers/alignment.py)                  *)
(***************************************************************************)

\* parameters of align_audio (aligner.py), none of which has a default
align_audio_parameters == <<"audio_file", "text", "language", "token_step">>

\* number of values save_outputs returns: json_path, vtt_path, srt_path
save_outputs_returns == <<"json_path", "vtt_path", "srt_path">>

AlignmentEnvironments ==
    [download : DownloadOutcomes, download_text : BOOLEAN, aligned : BOOLEAN,
     upload_json : BOOLEAN, upload_vtt : BOOLEAN]

\* lines 76-108: save_outputs(result, temp_dir, stem) is unpacked into
\* targets names; a different number of values raises ValueError, which
\* the except clause turns into a failure
process_message_alignment_outputs(s3_key, targets, env) ==
    LET failure == MessageResult(s3_key, FALSE, NoneValue, NoneValue, NoneValue)
        stem == PathStem(s3_key)
        uploads == <<Event("upload_file", Some(stem \o <<".", "j", "s", "o", "n">>)),
                     Event("upload_file", Some(stem \o S_vtt))>>
    IN  IF targets # Len(save_outputs_returns)
        THEN [result |-> failure, events |-> <<Event("save_outputs", Some(stem))>>]
        ELSE IF ~env.upload_json \/ ~env.upload_vtt
        THEN [result |-> failure, events |-> uploads]
        ELSE [result |-> MessageResult(s3_key, TRUE, Some(stem \o S_vtt),
                                       NoneValue, NoneValue),
              events |-> uploads \o <<Event("send_completion_message", Some(stem))>>]

\* lines 45-116: the try statement. align_audio is called with given
\* positional arguments; fewer than it has parameters raises TypeError
process_message_alignment_try(s3_key, given, targets, env) ==
    LET failure == MessageResult(s3_key, FALSE, NoneValue, NoneValue, NoneValue)
        stem == PathStem(s3_key)
        audio == <<Event("download_audio", Some(stem \o S_mp3))>>
        text == audio \o <<Event("download_text", Some(s3_key \o S_txt))>>
        align == text \o <<Event("align_audio", Some(s3_key))>>
    IN  IF env.download # "path" THEN [result |-> failure, events |-> audio]
        ELSE IF ~env.download_text THEN [result |-> failure, events |-> text]
        ELSE IF given # Len(align_audio_parameters) \/ ~env.aligned
        THEN [result |-> failure, events |-> align]
        ELSE LET out == process_message_alignment_outputs(s3_key, targets, env)
             IN  [result |-> out.result, events |-> align \o out.events]

\* process_message of gpu_timestamp: message.s3_key and message.language
\* are read before the try statement; align_audio gets three arguments
\* (line 67) and save_outputs is unpacked into two names (line 77)
process_message_alignment(message, env) ==
    IF ~(HasAttr(message, "s3_key") /\ HasAttr(message, "language"))
    THEN [result |-> MessageRaised, events |-> <<>>]
    ELSE process_message_alignment_try(message.s3_key.text, 3, 2, env)

(***************************************************************************)
(* Specification of one call of process_message (gpu_instance)             *)
(***************************************************************************)

S_unknown == <<"u", "n", "k", "n", "o", "w", "n">>

AudioKeys == {Stem_a \o S_mp3, Stem_b \o S_mp3}

Handles == {NoneValue, Some(<<"r", "1">>)}

\* the instances of SQSMessage, as tests/test_handlers.py builds them
SchemaMessages ==
    {SQSMessage([s3_key |-> Some(k), language |-> Some(l),
                 massechet_name |-> Some(<<"m">>), daf_name |-> Some(<<"2">>),
                 receipt_handle |-> h]).object :
        k \in AudioKeys, l \in {S_he, S_unknown}, h \in Handles}

\* objects with the attributes SQSReceiver.receive_messages gives to the
\* constructor (s3_key, language, details, receipt_handle): what
\* process_message reads, though no class of the package declares details
DetailsMessages ==
    {[s3_key |-> Some(k), language |-> Some(l), details |-> Some(<<"d">>),
      receipt_handle |-> h] :
        k \in AudioKeys, l \in {S_he, S_unknown}, h \in Handles}

InitMessage ==
    /\ pc = "call"
    /\ worker = "transcription"
    /\ sqs_queue = <<>>
    /\ messages \in {<<m>> : m \in SchemaMessages \cup DetailsMessages}
    /\ message_result = NoMessageResult
    /\ events = <<>>
    /\ success_count = 0
    /\ fail_count = 0
    /\ review_result = NoReviewResult
    /\ batch_inputs = <<>>
    /\ batch_jobs = <<>>
    /\ NoFormat
    /\ NoPool
    /\ NoPipeline
    /\ NoInject
    /\ NoAlign

\* process_message(message, ...) is called and returns or raises
CallProcessMessage(env) ==
    /\ pc = "call"
    /\ \E r \in {process_message(messages[1], env)} :
          /\ message_result' = r.result
          /\ events' = r.events
          /\ pc' = IF r.result.raised THEN "raised" ELSE "returned"
    /\ UNCHANGED <<review_vars, batch_vars, process_vars, inject_vars, align_vars,
                   format_vars, pool_vars, submit_vars, worker, sqs_queue, messages, success_count, fail_count>>

NextMessage == \E env \in Environments : CallProcessMessage(env)

SpecMessage == InitMessage /\ [][NextMessage]_vars

(***************************************************************************)
(* The worker loops (run_worker_loop) and their receivers                  *)
(***************************************************************************)

\* most messages in the queue of a worker
MaxMessages == 2

\* a message of the queue as boto3 returns it, and whether SQS still holds
\* it ("visible"), has handed it out ("in_flight") or has deleted it
RawMessage(body, i) ==
    [Body |-> body, ReceiptHandle |-> Some(<<"r">> \o IntToStr(i)), state |-> "visible"]

\* the keyword arguments SQSReceiver.receive_messages of gpu_instance
\* builds from a raw message (lines 62-68)
MessageArguments(raw) ==
    [s3_key |-> BodyGet(raw.Body, "s3_key"),
     language |-> BodyGet(raw.Body, "language"),
     details |-> BodyGet(raw.Body, "details"),
     receipt_handle |-> raw.ReceiptHandle]

\* SQSReceiver.receive_messages of gpu_instance, after the client call: a
\* raw message whose SQSMessage cannot be built is logged and skipped
receive_messages(raw_messages) ==
    LET built == [i \in 1..Len(raw_messages) |->
                     SQSMessage(MessageArguments(raw_messages[i]))]
        good == SelectSeq(built, LAMBDA b : ~b.raised)
    IN  [i \in 1..Len(good) |-> good[i].object]

\* the receiver of gpu_timestamp, built like the one of gpu_instance for
\* the fields of its own SQSMessage
receive_messages_alignment(raw_messages) ==
    LET built == [i \in 1..Len(raw_messages) |->
                     AlignmentSQSMessage(
                        [s3_key |-> BodyGet(raw_messages[i].Body, "s3_key"),
                         language |-> BodyGet(raw_messages[i].Body, "language"),
                         receipt_handle |-> raw_messages[i].ReceiptHandle])]
        good == SelectSeq(built, LAMBDA b : ~b.raised)
    IN  [i \in 1..Len(good) |-> good[i].object]

\* SQSReceiver.delete_message: the client is called only for a message with
\* a receipt handle; the queue after the call
delete_message(queue, message, client_ok) ==
    IF message.receipt_handle.none \/ ~client_ok THEN queue
    ELSE [i \in 1..Len(queue) |->
             IF queue[i].ReceiptHandle = message.receipt_handle
             THEN [queue[i] EXCEPT !.state = "deleted"] ELSE queue[i]]

\* bodies that reach the queue of the transcription worker: the one
\* audio_manager publishes, the one the receiver reads, and an empty one
TranscriptionBodies ==
    {[s3_key |-> Some(Stem_a \o S_mp3), language |-> Some(S_he),
      massechet_name |-> Some(<<"m">>), daf_name |-> Some(<<"2">>)],
     [s3_key |-> Some(Stem_a \o S_mp3), language |-> Some(S_he),
      details |-> Some(<<"d">>)],
     << >>}

\* bodies that reach the queue of the alignment worker
AlignmentBodies ==
    {[s3_key |-> Some(Stem_a), language |-> Some(S_he)],
     [s3_key |-> Some(Stem_b)],
     << >>}

QueuesOf(bodies) ==
    UNION {{[i \in 1..n |-> RawMessage(bs[i], i)] : bs \in [1..n -> bodies]} :
              n \in 0..MaxMessages}

InitWorker ==
    /\ pc = "poll"
    /\ \/ worker = "transcription" /\ sqs_queue \in QueuesOf(TranscriptionBodies)
       \/ worker = "alignment" /\ sqs_queue \in QueuesOf(AlignmentBodies)
    /\ messages = <<>>
    /\ message_result = NoMessageResult
    /\ events = <<>>
    /\ success_count = 0
    /\ fail_count = 0
    /\ review_result = NoReviewResult
    /\ batch_inputs = <<>>
    /\ batch_jobs = <<>>
    /\ NoFormat
    /\ NoPool
    /\ NoPipeline
    /\ NoInject
    /\ NoAlign

\* lines 143-147: one poll. SQS hands out the visible messages of taken (at
\* most max_messages = 1 of them) and hides them; the receiver builds the
\* messages; with none the loop polls again
ReceiveMessages(taken) ==
    /\ pc = "poll"
    /\ \A i \in taken : sqs_queue[i].state = "visible"
    /\ sqs_queue' = [i \in 1..Len(sqs_queue) |->
                        IF i \in taken THEN [sqs_queue[i] EXCEPT !.state = "in_flight"]
                        ELSE sqs_queue[i]]
    /\ \E raw \in {SelectSeq(sqs_queue, LAMBDA r : \E i \in taken : sqs_queue[i] = r)} :
       \E received \in {IF worker = "transcription" THEN receive_messages(raw)
                         ELSE receive_messages_alignment(raw)} :
          /\ messages' = received
          /\ events' = events \o [i \in 1..Len(received) |->
                                     Event("receive_messages", received[i].receipt_handle)]
          /\ pc' = IF Len(received) = 0 THEN "poll" ELSE "process"
    /\ UNCHANGED <<review_vars, batch_vars, process_vars, inject_vars, align_vars,
                   format_vars, pool_vars, submit_vars, worker, message_result, success_count, fail_count>>

\* the outcome of process_message for the worker that runs
ProcessOutcomes(message) ==
    IF worker = "transcription"
    THEN {process_message(message, env) : env \in Environments}
    ELSE {process_message_alignment(message, env) : env \in AlignmentEnvironments}

\* lines 150-161: process_message for the next message of the for loop and
\* the counters; an exception of process_message leaves run_worker_loop
ProcessMessage ==
    /\ pc = "process"
    /\ \E r \in ProcessOutcomes(messages[1]) :
          /\ message_result' = r.result
          /\ IF r.result.raised
             THEN /\ pc' = "crashed"
                  /\ events' = events \o r.events
                  /\ UNCHANGED <<success_count, fail_count>>
             ELSE /\ pc' = "delete"
                  /\ events' = events \o r.events
                        \o <<Event("process_message_returned", messages[1].receipt_handle)>>
                  /\ success_count' = success_count + (IF r.result.success THEN 1 ELSE 0)
                  /\ fail_count' = fail_count + (IF r.result.success THEN 0 ELSE 1)
    /\ UNCHANGED <<review_vars, batch_vars, process_vars, inject_vars, align_vars,
                   format_vars, pool_vars, submit_vars, worker, sqs_queue, messages>>

\* a loop that deletes only the messages it processed successfully
DeleteMessage_on_success(client_ok) ==
    /\ pc = "delete"
    /\ IF message_result.success
       THEN /\ sqs_queue' = delete_message(sqs_queue, messages[1], client_ok)
            /\ events' = Append(events, Event("delete_message", messages[1].receipt_handle))
       ELSE UNCHANGED <<sqs_queue, events>>
    /\ messages' = Tail(messages)
    /\ pc' = IF Len(messages) = 1 THEN "poll" ELSE "process"
    /\ UNCHANGED <<review_vars, batch_vars, process_vars, inject_vars, align_vars,
                   format_vars, pool_vars, submit_vars, worker, message_result, success_count, fail_count>>

\* lines 163-168: the message is deleted whatever the result was, and the
\* for loop goes on to the next message or back to the poll
DeleteMessage(client_ok) ==
    /\ pc = "delete"
    /\ sqs_queue' = delete_message(sqs_queue, messages[1], client_ok)
    /\ events' = Append(events, Event("delete_message", messages[1].receipt_handle))
    /\ messages' = Tail(messages)
    /\ pc' = IF Len(messages) = 1 THEN "poll" ELSE "process"
    /\ UNCHANGED <<review_vars, batch_vars, process_vars, inject_vars, align_vars,
                   format_vars, pool_vars, submit_vars, worker, message_result, success_count, fail_count>>

NextWorker ==
    \/ \E taken \in {t \in SUBSET (1..Len(sqs_queue)) : Cardinality(t) <= 1} :
          ReceiveMessages(taken)
    \/ ProcessMessage
    \/ \E client_ok \in BOOLEAN : DeleteMessage(client_ok)

SpecWorker == InitWorker /\ [][NextWorker]_vars

(***************************************************************************)
(* Specification of the formatters: a transcription is rendered as timed   *)
(* text (gpu_instance), converted to VTT and given back its own plain text *)
(* (post_inference)                                                        *)
(***************************************************************************)

\* most segments of a transcription
MaxSegments == 3

\* what faster-whisper gives as the text of a segment, after str.strip():
\* a word, nothing, or two words with a line break between them
SegmentTextKinds == {"word", "empty", "two_lines"}

SegmentText(kind, i) ==
    IF kind = "word" THEN <<Letters[i]>>
    ELSE IF kind = "empty" THEN <<>>
    ELSE <<Letters[i], NL, "x">>

\* collect_segments: segment i gets index i; the segments last two seconds
CollectedSegments ==
    {[i \in 1..Len(kinds) |->
         [index |-> i, start |-> (i - 1) * 20000, end |-> i * 20000,
          text |-> SegmentText(kinds[i], i)]] :
        kinds \in UNION {[1..k -> SegmentTextKinds] : k \in 0..MaxSegments}}

InitFormat ==
    /\ pc = "collected"
    /\ collected \in CollectedSegments
    /\ timed_text = NoneValue
    /\ vtt_text = NoneValue
    /\ reinjected = NoneValue
    /\ seconds = 0
    /\ timestamp = NoneValue
    /\ parsed = NoneInt
    /\ review_result = NoReviewResult
    /\ batch_inputs = <<>>
    /\ batch_jobs = <<>>
    /\ NoWorker
    /\ NoPool
    /\ NoPipeline
    /\ NoInject
    /\ NoAlign

\* segments_to_timed_text(segments), stored as {stem}.timed.txt
SegmentsToTimedText ==
    /\ pc = "collected"
    /\ timed_text' = Some(segments_to_timed_text(collected))
    /\ pc' = "timed"
    /\ UNCHANGED <<review_vars, batch_vars, process_vars, inject_vars, align_vars,
                   submit_vars, worker_vars, pool_vars, collected, vtt_text, reinjected,
                   seconds, timestamp, parsed>>

\* convert_to_vtt(timed_content)
ConvertToVtt ==
    /\ pc = "timed"
    /\ vtt_text.none
    /\ vtt_text' = Some(convert_to_vtt(timed_text.text))
    /\ UNCHANGED <<pc, review_vars, batch_vars, process_vars, inject_vars, align_vars,
                   submit_vars, worker_vars, pool_vars, collected, timed_text, reinjected,
                   seconds, timestamp, parsed>>

\* inject_timestamps(fixed_text, timed_content) for a correction that
\* changes nothing: fixed_text is segments_to_text(segments)
ReinjectPlainText ==
    /\ pc = "timed"
    /\ vtt_text' = vtt_text
    /\ reinjected' = inject_timestamps(segments_to_text(collected), timed_text.text)
    /\ pc' = "reinjected"
    /\ UNCHANGED <<review_vars, batch_vars, process_vars, inject_vars, align_vars,
                   submit_vars, worker_vars, pool_vars, collected, timed_text, seconds, timestamp, parsed>>

NextFormat == SegmentsToTimedText \/ ConvertToVtt \/ ReinjectPlainText

SpecFormat == InitFormat /\ [][NextFormat]_vars

(***************************************************************************)
(* Specification of the timestamps: format_timestamp (gpu_instance) and    *)
(* parse_timestamp (transcription_reviewer)                                *)
(***************************************************************************)

\* parse_timestamp(ts): hours * 3600 + minutes * 60 + seconds, in units of
\* 0.1 ms; float("SS.mmm") is the number the digits spell
parse_timestamp(ts) ==
    LET parts == Split(ts, ":")
        hours == StrToInt(parts[1])
        minutes == StrToInt(parts[2])
        point == Split(parts[3], ".")
        millis == StrToInt(point[1]) * 1000 + StrToInt(point[2])
    IN  hours * 36000000 + minutes * 600000 + millis * 10

\* how many tenths of a millisecond the times go on from each starting point
MaxTenths == 69

\* 0 s, 59.994 s, 59 min 59.994 s and 1 h 59 min 59.994 s
TimestampOnsets == {0, 599940, 35999940, 71999940}

\* the times given to format_timestamp: they stay off the ties of the
\* rounding to milliseconds, where the digit depends on the binary value of
\* the float
TimestampInputs ==
    {onset + k : onset \in TimestampOnsets, k \in {j \in 0..MaxTenths : j % 10 # 5}}

InitTimestamp ==
    /\ pc = "seconds"
    /\ seconds \in TimestampInputs
    /\ timestamp = NoneValue
    /\ parsed = NoneInt
    /\ collected = <<>>
    /\ timed_text = NoneValue
    /\ vtt_text = NoneValue
    /\ reinjected = NoneValue
    /\ review_result = NoReviewResult
    /\ batch_inputs = <<>>
    /\ batch_jobs = <<>>
    /\ NoWorker
    /\ NoPool
    /\ NoPipeline
    /\ NoInject
    /\ NoAlign

\* format_timestamp(seconds)
FormatTimestamp ==
    /\ pc = "seconds"
    /\ timestamp' = Some(format_timestamp(seconds))
    /\ pc' = "formatted"
    /\ UNCHANGED <<review_vars, batch_vars, process_vars, inject_vars, align_vars,
                   submit_vars, worker_vars, pool_vars, collected, timed_text, vtt_text,
                   reinjected, seconds, parsed>>

\* parse_timestamp(ts) of the formatted time
ParseTimestamp ==
    /\ pc = "formatted"
    /\ parsed' = SomeInt(parse_timestamp(timestamp.text))
    /\ pc' = "parsed"
    /\ UNCHANGED <<review_vars, batch_vars, process_vars, inject_vars, align_vars,
                   submit_vars, worker_vars, pool_vars, collected, timed_text, vtt_text,
                   reinjected, seconds, timestamp>>

NextTimestamp == FormatTimestamp \/ ParseTimestamp

SpecTimestamp == InitTimestamp /\ [][NextTimestamp]_vars

(***************************************************************************)
(* Specification of several worker loops that poll the same queue          *)
(***************************************************************************)

\* most times the visibility timeout of a received message runs out before
\* the message is deleted
MaxExpiries == 1

\* two worker loops poll the queue
Workers == {1, 2}

\* the queue holds one message
PoolQueues(bodies) == {<<RawMessage(body, 1)>> : body \in bodies}

\* a loop at its poll, with the counters of run_worker_loop (lines 130-131)
PollingLoop == [pc |-> "poll", messages |-> <<>>, success_count |-> 0, fail_count |-> 0]

\* what a loop did, or what the queue did (by = 0), to the message with a handle
PoolEvent(op, key, by) == [op |-> op, key |-> key, by |-> by]

InitWorkers ==
    /\ pc = "pool"
    /\ \/ worker = "transcription" /\ sqs_queue \in PoolQueues(TranscriptionBodies)
       \/ worker = "alignment" /\ sqs_queue \in PoolQueues(AlignmentBodies)
    /\ loops = [w \in Workers |-> PollingLoop]
    /\ messages = <<>>
    /\ message_result = NoMessageResult
    /\ events = <<>>
    /\ success_count = 0
    /\ fail_count = 0
    /\ review_result = NoReviewResult
    /\ batch_inputs = <<>>
    /\ batch_jobs = <<>>
    /\ NoFormat
    /\ NoPipeline
    /\ NoInject
    /\ NoAlign

\* lines 143-147 in loop w: SQS hands out at most one visible message and
\* hides it for visibility_timeout = 600 seconds (sqs_client.py 41-46); the
\* receiver builds the messages; with none the loop polls again
PoolReceive(w, taken) ==
    /\ pc = "pool"
    /\ loops[w].pc = "poll"
    /\ \A i \in taken : sqs_queue[i].state = "visible"
    /\ sqs_queue' = [i \in 1..Len(sqs_queue) |->
                        IF i \in taken THEN [sqs_queue[i] EXCEPT !.state = "in_flight"]
                        ELSE sqs_queue[i]]
    /\ \E raw \in {SelectSeq(sqs_queue, LAMBDA r : \E i \in taken : sqs_queue[i] = r)} :
       \E received \in {IF worker = "transcription" THEN receive_messages(raw)
                         ELSE receive_messages_alignment(raw)} :
          /\ loops' = [loops EXCEPT ![w].messages = received,
                                    ![w].pc = IF Len(received) = 0 THEN "poll"
                                              ELSE "process"]
          /\ events' = events \o [i \in 1..Len(received) |->
                           PoolEvent("receive_messages", received[i].receipt_handle, w)]
    /\ UNCHANGED <<pc, review_vars, batch_vars, process_vars, inject_vars, align_vars,
                   format_vars, submit_vars, worker, messages, message_result,
                   success_count, fail_count>>

\* the 600 seconds of a received message are over before it was deleted:
\* SQS makes it visible again.  Nothing in process_message bounds the time of
\* the download or of the transcription, and no loop extends the timeout
VisibilityExpires(i) ==
    /\ pc = "pool"
    /\ i \in 1..Len(sqs_queue)
    /\ sqs_queue[i].state = "in_flight"
    /\ Len(SelectSeq(events, LAMBDA e : e.op = "visibility_timeout")) < MaxExpiries
    /\ sqs_queue' = [sqs_queue EXCEPT ![i].state = "visible"]
    /\ events' = Append(events, PoolEvent("visibility_timeout", sqs_queue[i].ReceiptHandle, 0))
    /\ UNCHANGED <<pc, review_vars, batch_vars, process_vars, inject_vars, align_vars,
                   format_vars, submit_vars, worker, messages, message_result,
                   success_count, fail_count, loops>>

\* lines 150-161 in loop w: process_message returns and is counted, or
\* raises and ends the loop
PoolProcess(w) ==
    /\ pc = "pool"
    /\ loops[w].pc = "process"
    /\ \E r \in ProcessOutcomes(loops[w].messages[1]) :
          IF r.result.raised
          THEN /\ loops' = [loops EXCEPT ![w].pc = "crashed"]
               /\ UNCHANGED events
          ELSE /\ loops' = [loops EXCEPT
                      ![w].pc = "delete",
                      ![w].success_count = @ + (IF r.result.success THEN 1 ELSE 0),
                      ![w].fail_count = @ + (IF r.result.success THEN 0 ELSE 1)]
               /\ events' = Append(events,
                      PoolEvent("process_message", loops[w].messages[1].receipt_handle, w))
    /\ UNCHANGED <<pc, review_vars, batch_vars, process_vars, inject_vars, align_vars,
                   format_vars, submit_vars, worker, sqs_queue, messages, message_result,
                   success_count, fail_count>>

\* lines 163-168 in loop w: the message is deleted and the loop goes on
PoolDelete(w, client_ok) ==
    /\ pc = "pool"
    /\ loops[w].pc = "delete"
    /\ sqs_queue' = delete_message(sqs_queue, loops[w].messages[1], client_ok)
    /\ events' = Append(events,
           PoolEvent("delete_message", loops[w].messages[1].receipt_handle, w))
    /\ loops' = [loops EXCEPT ![w].messages = Tail(@),
                              ![w].pc = IF Len(loops[w].messages) = 1 THEN "poll"
                                        ELSE "process"]
    /\ UNCHANGED <<pc, review_vars, batch_vars, process_vars, inject_vars, align_vars,
                   format_vars, submit_vars, worker, messages, message_result,
                   success_count, fail_count>>

NextWorkers ==
    \/ \E w \in Workers :
       \E taken \in {t \in SUBSET (1..Len(sqs_queue)) : Cardinality(t) <= 1} :
          PoolReceive(w, taken)
    \/ VisibilityExpires(1)
    \/ \E w \in Workers : PoolProcess(w)
    \/ \E w \in Workers, client_ok \in BOOLEAN : PoolDelete(w, client_ok)

SpecWorkers == InitWorkers /\ [][NextWorkers]_vars
(***************************************************************************)
(* Properties of the batch build and of the regrouping                     *)
(***************************************************************************)

Range(s) == {s[i] : i \in 1..Len(s)}

\* the record_ids prepare_batch_entries gives the chunks of document d, in
\* chunk order
ChunkIds(d) ==
    LET es == FileEntries(FileOf(d), d.enc)
    IN  [i \in 1..Len(es) |-> es[i].record_id]

\* the records of the batch output that carry a record_id of ids, in arrival order
RecordsOf(ids) ==
    LET Mine(r) == r.record_id \in Range(ids)
    IN  SelectSeq(records, Mine)

\* the position in rs of the record with the given id
PositionOf(rs, id) == CHOOSE j \in 1..Len(rs) : rs[j].record_id = id

\* rs holds exactly one record for every id of ids and nothing else
ExactlyTheChunks(rs, ids) ==
    /\ Len(rs) = Len(ids)
    /\ \A k \in 1..Len(ids) : \E j \in 1..Len(rs) : rs[j].record_id = ids[k]

\* the texts of the records rs in the order of ids, joined by newlines
JoinInChunkOrder(rs, ids) ==
    Join([k \in 1..Len(ids) |-> rs[PositionOf(rs, ids[k])].fixed_text], NL)

\* C1: for every document of the run whose N >= 1 chunk records all arrived
\* (once each, in whatever order the batch output lists them),
\* group_split_records on those N records yields one merged string, the
\* newline-join of the N record texts in chunk order 1..N; when the batch
\* output holds nothing else, that is the mapping the run goes on with.
C1_SplitMergeInverse ==
    pc = "processing" =>
        \A i \in 1..Len(docs) :
            LET ids == ChunkIds(docs[i])
                rs == RecordsOf(ids)
                g == group_split_records(rs)
            IN  ExactlyTheChunks(rs, ids) =>
                    /\ Len(g) = 1
                    /\ g[1].text = JoinInChunkOrder(rs, ids)
                    /\ Len(rs) = Len(records) => merged = g

\* a document with a chunk 10 whose record arrived before that of chunk 2,
\* regrouped
C1_Witness ==
    /\ pc = "processing"
    /\ \E i \in 1..Len(docs) :
          LET ids == ChunkIds(docs[i])
              rs == RecordsOf(ids)
          IN  /\ Len(ids) >= 10
              /\ ExactlyTheChunks(rs, ids)
              /\ PositionOf(rs, ids[10]) < PositionOf(rs, ids[2])
              /\ \E p \in 1..Len(merged) : merged[p].text = JoinInChunkOrder(rs, ids)

\* every line of the batch output but the closing blank line is a record
\* with a non-empty text
AllRecordsArrived ==
    \A j \in 1..Len(batch_output) :
        \/ batch_output[j].kind = "blank"
        \/ /\ batch_output[j].kind = "json"
           /\ Len(batch_output[j].content) > 0
           /\ Len(batch_output[j].content[1]) > 0

\* C9: when the batch output holds a record for every entry of the batch
\* (the records of the documents, split or not, and the dummy records), the
\* keys of the merged mapping are exactly the stems of the documents.
C9_OneEntryPerStem ==
    (pc = "processing" /\ AllRecordsArrived) =>
        {merged[p].stem : p \in 1..Len(merged)} = {docs[i].stem : i \in 1..Len(docs)}

\* an entry built from a document: it carries the document's system prompt
IsDocumentEntry(e) == e.system_prompt = S_prompt

\* a padding entry: id dummy_..., prompt and content "ok"
IsDummyEntry(e) ==
    /\ StartsWith(e.record_id, S_dummy_)
    /\ e.system_prompt = S_ok
    /\ e.content = S_ok

\* C3: the list returned by prepare_batch_entries has at least MIN_ENTRIES
\* entries, every entry is a real entry or a dummy entry, and the number of
\* dummy entries is exactly max(0, MIN_ENTRIES - number of real entries).
C3_PaddingInvariant ==
    pc = "submitted" =>
        LET real == Len(SelectSeq(entries, IsDocumentEntry))
            dummy == Len(SelectSeq(entries, IsDummyEntry))
        IN  /\ Len(entries) >= MIN_ENTRIES
            /\ real + dummy = Len(entries)
            /\ dummy = IF MIN_ENTRIES > real THEN MIN_ENTRIES - real ELSE 0

\* a batch with more real entries than MIN_ENTRIES: no dummy entry is added
C3_Witness ==
    /\ pc = "submitted"
    /\ Len(SelectSeq(entries, IsDocumentEntry)) > MIN_ENTRIES
    /\ Len(SelectSeq(entries, IsDummyEntry)) = 0

\* entries holds an entry of the document with the given stem
HasEntryFor(stem) ==
    \E j \in 1..Len(entries) :
        /\ IsDocumentEntry(entries[j])
        /\ \/ entries[j].record_id = stem
           \/ StartsWith(entries[j].record_id, stem \o <<"_">>)

\* C10: a document whose tokenizing raises is counted as 4 times its number
\* of whitespace-separated words (here under MAX_TOKENS, so it is one entry
\* with that token count), and the list returned by prepare_batch_entries
\* holds entries for every document of the input list.
C10_TokenFallback ==
    pc = "submitted" =>
        \A i \in 1..Len(docs) :
            /\ HasEntryFor(files[i].stem)
            /\ docs[i].enc.raises =>
                   \E j \in 1..Len(entries) :
                       /\ entries[j].record_id = files[i].stem
                       /\ entries[j].content = Strip(files[i].content)
                       /\ entries[j].token_count = 4 * WordCount(files[i].content)

\* a batch of two documents built although tokenizing the first one raised
C10_Witness ==
    /\ pc = "submitted"
    /\ Len(docs) = 2
    /\ docs[1].enc.raises
    /\ WordCount(files[1].content) > 1
    /\ ~docs[2].enc.raises
    /\ HasEntryFor(files[1].stem)
    /\ HasEntryFor(files[2].stem)
    /\ LogEntry("warning", "Token counting failed, using word estimate: %s", <<>>)
           \in Range(review_log)

(***************************************************************************)
(* Properties of inject_timestamps                                         *)
(***************************************************************************)

\* the lines of a text that hold a character other than white space
NonBlankLines(text) ==
    LET lines == Split(text, NL)
    IN  {i \in 1..Len(lines) : \E j \in 1..Len(lines[i]) : lines[i][j] \notin Whitespace}

\* number of lines of a text (none for the empty text)
LineCount(text) == IF Len(text) = 0 THEN 0 ELSE Len(Split(text, NL))

\* C2: inject_timestamps returns None exactly when the numbers of non-empty
\* trimmed lines of fixed_text and of timed_content differ; when they are
\* equal the text it returns has exactly that many lines, none of them blank.
C2_AllOrNothing ==
    pc = "injected" =>
        LET fixed_count == Cardinality(NonBlankLines(fixed_text))
            timed_count == Cardinality(NonBlankLines(timed_content))
        IN  /\ timed_result.none <=> fixed_count # timed_count
            /\ ~timed_result.none =>
                   /\ LineCount(timed_result.text) = fixed_count
                   /\ Cardinality(NonBlankLines(timed_result.text)) = fixed_count

\* two corrected lines around a blank line, reinjected into two timed lines
C2_Witness ==
    /\ pc = "injected"
    /\ ~timed_result.none
    /\ Cardinality(NonBlankLines(fixed_text)) = 2
    /\ LineCount(fixed_text) = 3
    /\ LineCount(timed_result.text) = 2
    /\ \E i \in 1..2 : TimedLineMatch(Split(timed_result.text, NL)[i]).ok

(***************************************************************************)
(* Properties of the alignment evaluation                                  *)
(***************************************************************************)

\* what the two detectors return for the words of the run
RollingAvgIndex ==
    detect_degradation_rolling_avg(ValidProbs(words), WINDOW, THRESHOLD_PCT)

CusumIndex ==
    detect_degradation_cusum(ValidProbs(words), WINDOW, CUSUM_THRESHOLD)

\* C4: evaluate_alignment returns a report only when both detectors return
\* an index other than -1, the report holds the two indices, and the VTT and
\* the SRT file are then the saved files truncated at the CUSUM index.
C4_DegradationConjunction ==
    (pc = "aligned" /\ ~analysis_result.none) =>
        /\ RollingAvgIndex # -1
        /\ CusumIndex # -1
        /\ analysis_result.rolling_avg_method = RollingAvgIndex
        /\ analysis_result.cusum_method = CusumIndex
        /\ vtt_file = truncate_vtt_file(to_vtt(words), CusumIndex).content
        /\ srt_file = truncate_srt_file(to_srt(words), CusumIndex).content

\* a report whose two indices would cut the VTT file at different cues
C4_Witness ==
    /\ pc = "aligned"
    /\ ~analysis_result.none
    /\ analysis_result.rolling_avg_method # analysis_result.cusum_method
    /\ vtt_file # to_vtt(words)
    /\ vtt_file # truncate_vtt_file(to_vtt(words),
                                    analysis_result.rolling_avg_method).content

\* number of words whose probability is not null
ValidCount == Len(SelectSeq(words, HasProbability))

\* C5: with fewer than 3 * WINDOW words of non-null probability both
\* detectors return -1 and evaluate_alignment returns no report, however
\* many words of null probability there are.
C5_InsufficientData ==
    (pc = "aligned" /\ ValidCount < 3 * WINDOW) =>
        /\ RollingAvgIndex = -1
        /\ CusumIndex = -1
        /\ analysis_result.none
        /\ analysis_file.none

\* 3 * WINDOW words or more, fewer than 3 * WINDOW of them with a probability
C5_Witness ==
    /\ pc = "aligned"
    /\ Len(words) >= 3 * WINDOW
    /\ ValidCount < 3 * WINDOW
    /\ ValidCount > 0
    /\ analysis_result.none

\* the probabilities p are 0.95 before index k and 0.3 from index k on
IsStepDrop(p, k) ==
    /\ k <= Len(p)
    /\ \A i \in 1..Len(p) : p[i] = IF i <= k THEN 95 ELSE 30

\* the words of the run are such a series, with k >= 3 * WINDOW and at least
\* 3 * WINDOW points after index k
StepDropAt(k) ==
    /\ pc = "aligned"
    /\ k >= 3 * WINDOW
    /\ Len(ValidProbs(words)) - k - 1 >= 3 * WINDOW
    /\ IsStepDrop(ValidProbs(words), k)

\* C6 as stated: both detectors return an index in k .. k + WINDOW.
C6_WithinOneWindow ==
    \A k \in Onsets :
        StepDropAt(k) =>
            /\ ~analysis_result.none
            /\ analysis_result.rolling_avg_method \in k..(k + WINDOW)
            /\ analysis_result.cusum_method \in k..(k + WINDOW)

\* C6, amended: for such a step drop the rolling average detects at index
\* k + 73, within one window of k, and CUSUM at index k + 172, within two
\* windows of k but not within one.
C6_StepDropDetection ==
    \A k \in Onsets :
        StepDropAt(k) =>
            /\ ~analysis_result.none
            /\ analysis_result.rolling_avg_method = k + 73
            /\ analysis_result.cusum_method = k + 172
            /\ analysis_result.rolling_avg_method \in k..(k + WINDOW)
            /\ analysis_result.cusum_method \in (k + WINDOW + 1)..(k + 2 * WINDOW)

\* a step drop listed in reverse order in the JSON file, detected by both
C6_Witness ==
    /\ \E k \in Onsets : StepDropAt(k)
    /\ words[1].start_time.v > words[Len(words)].start_time.v
    /\ ~analysis_result.none

(***************************************************************************)
(* Properties of process_batch_output                                      *)
(***************************************************************************)

\* the S3 uploads of process_record
UploadFaults == {"put_txt", "put_no_timing", "put_vtt"}

\* C7: a process_record call that read the .time file and whose uploads all
\* succeed returns True; when inject_timestamps returned None the stored
\* {stem}.vtt is built from the original timed text and the corrected text is
\* stored as {stem}.no_timing.txt as well as {stem}.txt; otherwise the VTT
\* is built from the reinjected text and no {stem}.no_timing.txt is written.
C7_CorrectionFallback ==
    \A n \in 1..Len(calls) :
        LET c == calls[n]
            vtt_key == c.stem \o S_vtt
            txt_key == c.stem \o S_txt
            no_timing_key == c.stem \o S_no_timing_txt
        IN  (c.injected /\ c.fault \notin UploadFaults) =>
                /\ c.success
                /\ vtt_key \in DOMAIN output_bucket
                /\ txt_key \in DOMAIN output_bucket
                /\ output_bucket[txt_key] = c.fixed_text
                /\ IF c.timed_result.none
                   THEN /\ output_bucket[vtt_key] = convert_to_vtt(c.timed.text)
                        /\ no_timing_key \in DOMAIN output_bucket
                        /\ output_bucket[no_timing_key] = c.fixed_text
                   ELSE /\ output_bucket[vtt_key] = convert_to_vtt(c.timed_result.text)
                        /\ no_timing_key \notin DOMAIN output_bucket

\* a call that took the fallback: two timed lines, one corrected line
C7_Witness ==
    \E n \in 1..Len(calls) :
        /\ calls[n].injected
        /\ calls[n].fault = "none"
        /\ calls[n].timed_result.none
        /\ calls[n].success
        /\ (calls[n].stem \o S_no_timing_txt) \in DOMAIN output_bucket
        /\ output_bucket[calls[n].stem \o S_vtt] # convert_to_vtt(calls[n].fixed_text)

\* what one iteration of the loop of process_batch_output logs for a stem on
\* the clean-success path
CleanLog(stem) ==
    <<LogEntry("info", "Timestamps injected successfully for %s", <<stem>>),
      LogEntry("info", "Saved VTT to s3://%s/%s", <<stem \o S_vtt>>),
      LogEntry("info", "Cleaned up source files for: %s", <<stem>>)>>

RECURSIVE CleanLogs(_)
CleanLogs(i) ==
    IF i > Len(merged) THEN <<>> ELSE CleanLog(merged[i].stem) \o CleanLogs(i + 1)

\* what process_batch_output logs on a clean-success run over the same stems
\* and the same number of records
CleanRunLog ==
    <<LogEntry("info", "Parsed %d real records from batch output",
               <<IntToStr(Len(records))>>),
      LogEntry("info", "Processing %d stems from %d records",
               <<IntToStr(Len(merged)), IntToStr(Len(records))>>)>>
    \o CleanLogs(1)
    \o <<LogEntry("info", "Processing complete: %d processed, %d failed, %d cleaned up",
                  <<IntToStr(Len(merged)), IntToStr(0), IntToStr(Len(merged))>>)>>

\* the ProcessResult of that clean-success run
CleanResult ==
    [total_records |-> Len(merged), processed |-> Len(merged), failed |-> 0,
     cleaned_up |-> Len(merged)]

\* a call went through the line-count mismatch fallback
MismatchFallback == \E n \in 1..Len(calls) : calls[n].injected /\ calls[n].timed_result.none

\* the record of an unsplit document whose stem ends in _<digits> was grouped
\* as a chunk of another stem
AmbiguousGrouping ==
    \E i \in 1..Len(docs), j \in 1..Len(records) :
        /\ ChunkIds(docs[i]) = <<docs[i].stem>>
        /\ records[j].record_id = docs[i].stem
        /\ SplitPatternMatch(docs[i].stem).ok

\* C8 (post_inference): a finished run that went through the mismatch
\* fallback or through an ambiguous split-suffix grouping has a log or a
\* result that differs from those of the clean-success run over the same
\* stems.
C8_DegradedPathsDistinguishable ==
    (pc = "done" /\ Len(records) > 0 /\ (MismatchFallback \/ AmbiguousGrouping)) =>
        (log # CleanRunLog \/ result # CleanResult)

\* the same for the mismatch fallback alone
MismatchDistinguishable ==
    (pc = "done" /\ MismatchFallback) => (log # CleanRunLog \/ result # CleanResult)


(***************************************************************************)
(* Properties of process_transcriptions                                    *)
(***************************************************************************)

\* C11: when process_transcriptions has returned and the list of loaded
\* documents is empty, no batch of entries was built, no batch input was
\* uploaded, no batch job was created and the result carries no job.
C11_EmptySetIsFailure ==
    (pc = "returned" /\ Len(files) = 0) =>
        /\ Len(entries) = 0
        /\ Len(batch_inputs) = 0
        /\ Len(batch_jobs) = 0
        /\ ~review_result.batch_job_arn

(***************************************************************************)
(* Properties of the record_ids and of the order of the entries            *)
(***************************************************************************)

\* the token count and the chunks of the i-th file of the run
TokensOfFile(i) == count_content_tokens(files[i].content, docs[i].enc)

ChunksOfFile(i) == _split_content_by_tokens(files[i].content, TokensOfFile(i), MAX_TOKENS)

\* number of chunks of the files before the i-th
RECURSIVE ChunksBefore(_)
ChunksBefore(i) == IF i <= 1 THEN 0 ELSE ChunksBefore(i - 1) + Len(ChunksOfFile(i - 1))

TotalChunks == ChunksBefore(Len(files) + 1)

\* C12: a document of at most MAX_TOKENS tokens yields exactly one entry, with
\* the bare stem as record_id and the whole stripped text as content; a
\* document of N >= 2 chunks yields N entries stem_1 .. stem_N whose contents,
\* joined in that order, are the stripped text; a document over the limit that
\* is a single chunk has the bare stem.
C12_RecordIdNaming ==
    pc = "submitted" =>
        /\ Len(entries) >= TotalChunks
        /\ \A k \in (TotalChunks + 1)..Len(entries) : IsDummyEntry(entries[k])
        /\ \A i \in 1..Len(files) :
              LET f == files[i]
                  N == Len(ChunksOfFile(i))
                  off == ChunksBefore(i)
              IN  /\ TokensOfFile(i) <= MAX_TOKENS => N = 1
                  /\ N = 1 => /\ entries[off + 1].record_id = f.stem
                              /\ entries[off + 1].content = Strip(f.content)
                  /\ N >= 2 =>
                        /\ \A j \in 1..N :
                              entries[off + j].record_id =
                                  f.stem \o <<"_">> \o IntToStr(j)
                        /\ Join([j \in 1..N |-> entries[off + j].content], NL) =
                               Strip(f.content)

\* a batch of a document over the limit that is one chunk (one line) and of a
\* long document split into one chunk per line
C12_Witness ==
    /\ pc = "submitted"
    /\ Len(files) = 2
    /\ TokensOfFile(1) > MAX_TOKENS /\ Len(ChunksOfFile(1)) = 1
    /\ entries[1].record_id = Stem_a
    /\ Len(ChunksOfFile(2)) = LongLines
    /\ entries[LongLines + 1].record_id = Stem_b \o <<"_">> \o IntToStr(LongLines)

\* C13: in the list returned by prepare_batch_entries the entries of the
\* documents come first, document by document in input order and chunk by
\* chunk within a document, and the dummy entries come after them: no dummy
\* entry precedes an entry of a document.
C13_EntryOrder ==
    pc = "submitted" =>
        /\ \A i \in 1..Len(files) : \A j \in 1..Len(ChunksOfFile(i)) :
              LET e == entries[ChunksBefore(i) + j]
              IN  /\ IsDocumentEntry(e)
                  /\ StartsWith(e.record_id, files[i].stem)
                  /\ e.content = ChunksOfFile(i)[j].content
        /\ \A a, b \in 1..Len(entries) :
              (a < b /\ IsDummyEntry(entries[a])) => IsDummyEntry(entries[b])

\* two documents, the second one split, followed by the padding
C13_Witness ==
    /\ pc = "submitted"
    /\ Len(files) = 2
    /\ Len(ChunksOfFile(1)) = 1 /\ Len(ChunksOfFile(2)) = 2
    /\ IsDocumentEntry(entries[3])
    /\ IsDummyEntry(entries[4])
    /\ Len(entries) = MIN_ENTRIES

(***************************************************************************)
(* C14: truncation of the subtitle files                                   *)
(***************************************************************************)

\* number of words of the alignment that cue block c of the saved files shows
CueWords(c) ==
    LET first == (c - 1) * CueLines * LineWords + 1
        left == Len(words) - first + 1
    IN  IF left >= CueLines * LineWords THEN CueLines * LineWords ELSE left

\* total number of words in the cue blocks 1..j
RECURSIVE WordsUpTo(_)
WordsUpTo(j) == IF j = 0 THEN 0 ELSE WordsUpTo(j - 1) + CueWords(j)

\* the cue blocks whose cumulative count is below word_index: a prefix
KeptCues(word_index) == {j \in 1..CueCount(words) : WordsUpTo(j) < word_index}

VttCue(c) == Join(<<CueTimes(c)>> \o CueText(words, c), NL)

SrtCue(c) == Join(<<IntToStr(c), CueTimes(c)>> \o CueText(words, c), NL)

EventOps == {events[i].op : i \in 1..Len(events)}

\* the call stopped at the download, or at the transcription
StoppedEarly ==
    /\ Len(events) > 0
    /\ events[Len(events)].op \in {"download_audio", "transcribe"}

\* a call that stopped early returned a failure naming the message's key,
\* and one that stopped at the download uploaded and published nothing
FailureReported ==
    StoppedEarly =>
        /\ ~message_result.success
        /\ message_result.source_key = messages[1].s3_key.text
        /\ EventOps \subseteq {"download_audio", "transcribe"}

\* C15: a call of process_message never ends with an exception; when the
\* download fails or the transcription raises it returns success=False
\* with source_key = s3_key, and after a failed download nothing is
\* uploaded and no completion message is published.
C15_NeverRaises ==
    pc \in {"returned", "raised"} => (~message_result.raised /\ FailureReported)

\* the part of C15 that the code keeps: every call that gets as far as the
\* try statement reports its failures as claimed
C15_FailureInsideTry ==
    pc = "returned" => (~message_result.raised /\ FailureReported)

(***************************************************************************)
(* C16: the worker loop deletes what it has handled                        *)
(***************************************************************************)

\* the positions in the history of the calls op made for the message with
\* receipt handle h
Positions(op, h) == {i \in 1..Len(events) : events[i].op = op /\ events[i].key = h}

ReceivedHandles ==
    {events[i].key : i \in {j \in 1..Len(events) : events[j].op = "receive_messages"}}

LinesOfFile(i) == Split(Strip(files[i].content), NL)

\* the content of chunk j of the i-th file, as the batch holds it
ChunkContent(i, j) == entries[ChunksBefore(i) + j].content

\* number of lines of chunk j of the i-th file
ChunkLines(i, j) == Len(Split(ChunkContent(i, j), NL))

\* number of lines in the chunks before chunk j of the i-th file
RECURSIVE LinesBefore(_, _)
LinesBefore(i, j) == IF j <= 1 THEN 0 ELSE LinesBefore(i, j - 1) + ChunkLines(i, j - 1)

\* C17: the chunks of a document are runs of one or more consecutive lines
\* of its stripped content, in source order, and every line is in exactly
\* one chunk: chunk j is the lines after those of the chunks 1..j-1, the
\* chunks together have all the lines, and their contents joined with
\* newlines are the stripped content.
C17_ChunksPartition ==
    pc = "submitted" =>
        \A i \in 1..Len(files) :
            LET N == Len(ChunksOfFile(i))
                lines == LinesOfFile(i)
            IN  /\ N >= 1
                /\ LinesBefore(i, N + 1) = Len(lines)
                /\ \A j \in 1..N :
                      /\ ChunkLines(i, j) >= 1
                      /\ ChunkContent(i, j) =
                            Join(SubSeq(lines, LinesBefore(i, j) + 1,
                                        LinesBefore(i, j) + ChunkLines(i, j)), NL)
                /\ Join([j \in 1..N |-> ChunkContent(i, j)], NL) = Strip(files[i].content)

\* a document that ends with an empty line is split into a chunk of two
\* lines and a chunk of one line
C17_Witness ==
    /\ pc = "submitted"
    /\ \E i \in 1..Len(files) :
          /\ files[i].content # Strip(files[i].content)
          /\ Len(ChunksOfFile(i)) = 2
          /\ ChunkLines(i, 1) = 2
          /\ ChunkLines(i, 2) = 1
          /\ Len(LinesOfFile(i)) = MaxLines

\* C18: in a document of L lines and T tokens that is split, a chunk of
\* more than one line has an estimate of lines * T / L <= MAX_TOKENS; a
\* chunk whose estimate is above MAX_TOKENS is a single line, and then
\* T / L > MAX_TOKENS.
C18_ChunkSizeBound ==
    pc = "submitted" =>
        \A i \in 1..Len(files) :
            LET L == Len(LinesOfFile(i))
                T == TokensOfFile(i)
            IN  T > MAX_TOKENS =>
                   \A j \in 1..Len(ChunksOfFile(i)) :
                      /\ ChunkLines(i, j) > 1 => ChunkLines(i, j) * T <= MAX_TOKENS * L
                      /\ ChunkLines(i, j) * T > MAX_TOKENS * L =>
                            (ChunkLines(i, j) = 1 /\ T > MAX_TOKENS * L)

\* a batch with a split document that has a chunk of two lines within the
\* limit and a split document whose lines are each above the limit
C18_Witness ==
    /\ pc = "submitted"
    /\ \E i \in 1..Len(files) :
          /\ TokensOfFile(i) > MAX_TOKENS
          /\ Len(ChunksOfFile(i)) = 2
          /\ ChunkLines(i, 1) = 2
          /\ 2 * TokensOfFile(i) <= MAX_TOKENS * Len(LinesOfFile(i))
    /\ \E i \in 1..Len(files) :
          /\ TokensOfFile(i) > MAX_TOKENS * Len(LinesOfFile(i))
          /\ Len(ChunksOfFile(i)) = Len(LinesOfFile(i))
          /\ Len(LinesOfFile(i)) >= 2

(***************************************************************************)
(* C19: positional pairing of inject_timestamps                            *)
(***************************************************************************)

\* the non-empty trimmed lines of a text, by position
TrimmedLine(text, i) ==
    LET lines == Split(text, NL)
        kept == SelectSeq(lines, LAMBDA l : \E j \in 1..Len(l) : l[j] \notin Whitespace)
    IN  Strip(kept[i])

\* the index and the times of the lines of a text that are timed lines
Stamps(text) ==
    LET lines == Split(text, NL)
        timed == SelectSeq(lines, LAMBDA l : TimedLineMatch(Strip(l)).ok)
    IN  [i \in 1..Len(timed) |->
            LET match == TimedLineMatch(Strip(timed[i]))
            IN  <<match.num, match.start, match.end>>]

\* output line i is the prefix of timed line i followed by fixed line i, or
\* fixed line i alone when timed line i is outside the grammar
PairedPositionally ==
    LET out == Split(timed_result.text, NL)
    IN  \A i \in 1..Cardinality(NonBlankLines(fixed_text)) :
           LET timed_line == TrimmedLine(timed_content, i)
               fixed_line == TrimmedLine(fixed_text, i)
               match == TimedLineMatch(timed_line)
           IN  out[i] = IF match.ok THEN match.prefix \o fixed_line ELSE fixed_line

\* a corrected line of the shape of a timed line is paired with a timed
\* line outside the grammar
FixedLineTakenForTimed ==
    \E i \in 1..Cardinality(NonBlankLines(fixed_text)) :
        /\ ~TimedLineMatch(TrimmedLine(timed_content, i)).ok
        /\ TimedLineMatch(TrimmedLine(fixed_text, i)).ok

\* C19 as stated: when the line counts match, the lines are paired
\* positionally and the indices and times of the output are those of
\* timed_content, in the same order.
C19_StampsPreserved ==
    (pc = "injected" /\ ~timed_result.none) =>
        /\ PairedPositionally
        /\ Stamps(timed_result.text) = Stamps(timed_content)

\* C19: when the line counts match, output line i is the timestamp prefix
\* of the i-th timed line followed by the i-th fixed line, or the i-th fixed
\* line alone if the i-th timed line is outside the grammar; the indices
\* and times of the output are those of timed_content, in order, unless a
\* fixed line that itself has the shape of a timed line is paired with a
\* timed line outside the grammar.
C19_PositionalPairing ==
    (pc = "injected" /\ ~timed_result.none) =>
        /\ PairedPositionally
        /\ ~FixedLineTakenForTimed => Stamps(timed_result.text) = Stamps(timed_content)

\* three corrected lines reinjected into the timed lines 1 and 3 and a line
\* outside the grammar between them
C19_Witness ==
    /\ pc = "injected"
    /\ ~timed_result.none
    /\ Cardinality(NonBlankLines(fixed_text)) = MaxTextLines
    /\ Len(Stamps(timed_content)) = MaxTextLines - 1
    /\ ~TimedLineMatch(TrimmedLine(timed_content, 2)).ok
    /\ ~FixedLineTakenForTimed
    /\ Stamps(timed_result.text) = Stamps(timed_content)
    /\ Stamps(timed_content)[1] # Stamps(timed_content)[2]

(***************************************************************************)
(* C20: the outcomes of an analysis run                                    *)
(***************************************************************************)

\* number of entries of the log of the run with the given message
Logged(msg) == Cardinality({i \in 1..Len(align_log) : align_log[i].msg = msg})

InsufficientData ==
    Logged("No words found in JSON file: %s")
        + Logged("Not enough probability data for analysis: %d words") = 1

Degraded == Logged("Degradation detected: rolling_avg=%d, cusum=%d") = 1

Clean ==
    /\ Logged("Degradation detection: rolling_avg=%d, cusum=%d") = 1
    /\ ~Degraded

CueOf(segment) ==
    <<IntToStr(segment.index),
      format_timestamp(segment.start) \o S_arrow \o format_timestamp(segment.end),
      segment.text,
      <<>> >>

\* the cues of the segments from i on
RECURSIVE CuesFrom(_, _)
CuesFrom(segs, i) ==
    IF i > Len(segs) THEN <<>> ELSE CueOf(segs[i]) \o CuesFrom(segs, i + 1)

\* C21: the VTT of the timed text of a list of segments has exactly one cue
\* for each segment, in order, with the index, the start, the end and the
\* text of that segment.
C21_OneCuePerSegment ==
    ~vtt_text.none =>
        vtt_text.text = Join(<<S_WEBVTT, <<>> >> \o CuesFrom(collected, 1), NL)

\* the segments whose text has no line break
OneLineTexts ==
    \A i \in 1..Len(collected) :
        \A j \in 1..Len(collected[i].text) : collected[i].text[j] # NL

\* the part of C21 the code keeps: one cue per segment whenever no text of a
\* segment holds a line break
C21_OneCuePerOneLineSegment ==
    (~vtt_text.none /\ OneLineTexts) =>
        vtt_text.text = Join(<<S_WEBVTT, <<>> >> \o CuesFrom(collected, 1), NL)

(***************************************************************************)
(* C25: plain text and timed text of the same segments                     *)
(***************************************************************************)

\* C25: giving the timed text of a list of segments the plain text of the
\* same segments never fails and gives the timed text back.
C25_IdentityRoundTrip ==
    pc = "reinjected" =>
        /\ ~reinjected.none
        /\ reinjected.text = timed_text.text

\* the segments that all have a text
NoEmptyText == \A i \in 1..Len(collected) : collected[i].text # <<>>

\* what the code keeps of C25: the timed text comes back when every segment
\* has a text of one line
C25_RoundTripOfOneLineTexts ==
    (pc = "reinjected" /\ NoEmptyText /\ OneLineTexts /\ collected # <<>>) =>
        /\ ~reinjected.none
        /\ reinjected.text = timed_text.text

(***************************************************************************)
(* C30: the form of a timestamp                                            *)
(***************************************************************************)

\* the number two digits at position i spell
TwoDigits(s, i) == StrToInt(SubSeq(s, i, i + 1))

\* the seconds field of HH:MM:SS.mmm, in milliseconds
SecondsField(s) == TwoDigits(s, 7) * 1000 + StrToInt(SubSeq(s, 10, 12))

\* C30: a formatted time is HH:MM:SS.mmm with the minutes in 00..59 and the
\* seconds field below 60.000.
C30_WellFormed ==
    ~timestamp.none =>
        /\ Len(timestamp.text) = 12
        /\ MatchTs(timestamp.text, 1)
        /\ TwoDigits(timestamp.text, 4) <= 59
        /\ SecondsField(timestamp.text) < 60000

\* the distance between two times
Distance(s, t) == IF s >= t THEN s - t ELSE t - s

\* what the code keeps of C30: the parsed time is within half a millisecond
\* of the formatted one
C30_ParsedWithinHalfMillisecond ==
    ~parsed.none => Distance(parsed.v, seconds) <= 5

(***************************************************************************)
(* C24: the record ids of a batch                                          *)
(***************************************************************************)

\* C24: the entries built from documents with pairwise distinct stems have
\* pairwise distinct record ids.
C24_UniqueRecordIds ==
    \A i, j \in 1..Len(entries) :
        i # j => entries[i].record_id # entries[j].record_id

\* no stem of the run has the form of a chunk id or of a padding id
PlainStems ==
    \A i \in 1..Len(files) :
        /\ ~SplitPatternMatch(files[i].stem).ok
        /\ ~StartsWith(files[i].stem, S_dummy_)

\* what the code keeps of C24: the ids are distinct when no stem ends in
\* _<digits> or starts with dummy_
C24_UniqueIdsOfPlainStems == PlainStems => C24_UniqueRecordIds

(***************************************************************************)
(* C26: a split document with a missing chunk                              *)
(***************************************************************************)

\* the batch output had a record with a text for chunk k of file i
ChunkAnswered(i, k) ==
    \E r \in 1..Len(records) :
        records[r].record_id = files[i].stem \o <<"_">> \o IntToStr(k)

\* C26: a split document is processed with success (counted, announced and
\* cleaned up) only if the batch output had a record with a text for each of
\* its chunks.
C26_SplitNeedsAllChunks ==
    \A c \in 1..Len(calls) :
        \A i \in 1..Len(files) :
            (calls[c].success /\ files[i].stem = calls[c].stem
                /\ Len(ChunksOfFile(i)) > 1) =>
                \A k \in 1..Len(ChunksOfFile(i)) : ChunkAnswered(i, k)

(***************************************************************************)
(* C27: cleanup after the outputs are stored                               *)
(***************************************************************************)

\* the keys of a bucket that start with {stem}.
KeysOfStem(bucket, stem) ==
    {key \in DOMAIN bucket : StartsWith(key, stem \o <<".">>)}

\* an object of the stem is gone from the audio or the transcription bucket
SourcesDeleted(stem) ==
    \/ KeysOfStem(AudioBucketOf(docs, 1), stem) \ DOMAIN audio_bucket # {}
    \/ KeysOfStem(TranscriptionBucketOf(docs, 1), stem) \ DOMAIN transcription_bucket # {}

\* C27: the source objects of a stem are deleted only when {stem}.txt,
\* {stem}.vtt and the backup {stem}.pre-fix.time are in the output bucket.
C27_DeleteAfterStore ==
    \A i \in 1..Len(docs) :
        SourcesDeleted(docs[i].stem) =>
            {docs[i].stem \o S_txt, docs[i].stem \o S_vtt,
             docs[i].stem \o S_pre_fix_time} \subseteq DOMAIN output_bucket

\* the part of C27 the code keeps: a stem whose process_record failed keeps
\* its source objects and is not announced
C27_FailureKeepsSources ==
    \A c \in 1..Len(calls) :
        ~calls[c].success =>
            /\ ~SourcesDeleted(calls[c].stem)
            /\ \A k \in 1..Len(sqs) : sqs[k].filename # calls[c].stem \o S_vtt

(***************************************************************************)
(* C28: what a success of process_message means                            *)
(***************************************************************************)

OpsInOrder == [e \in 1..Len(events) |-> events[e].op]

\* what the code keeps of C28: a success was preceded by the download, the
\* transcription, the three upload calls and the call of the publisher
C28_SuccessAfterAllCalls ==
    (pc = "returned" /\ message_result.success) =>
        SubSeq(OpsInOrder, 1, 6) =
            <<"download_audio", "transcribe", "upload_transcription",
              "upload_transcription", "upload_transcription",
              "publish_transcription_complete">>

(***************************************************************************)
(* C22: the rolling-average detector returns the first crossing            *)
(***************************************************************************)

\* first position (from 0) of the window that ends at index i
WindowStart(i) == IF i - WINDOW + 1 > 0 THEN i - WINDOW + 1 ELSE 0

\* the sums p[1] + ... + p[j] for j in lo .. hi, given the sum before lo
RECURSIVE RunningSums(_, _, _, _)
RunningSums(p, before, lo, hi) ==
    IF lo > hi THEN <<>>
    ELSE IF lo = hi THEN <<before + p[lo]>>
    ELSE LET mid == (lo + hi) \div 2
             left == RunningSums(p, before, lo, mid)
         IN  left \o RunningSums(p, left[Len(left)], mid + 1, hi)

\* the running sums of the probabilities of the run
ProbSums == RunningSums(ValidProbs(words), 0, 1, Len(ValidProbs(words)))

\* sum of the probabilities of the window that ends at index i, from the
\* running sums
WindowSum(sums, i) ==
    sums[i + 1] - (IF WindowStart(i) = 0 THEN 0 ELSE sums[WindowStart(i)])

\* sum of the moving averages of the indices WINDOW .. 3 * WINDOW - 1, each
\* of them over WINDOW values, times WINDOW
BaselineWindowSums(sums) ==
    SumRange([j \in 1..(3 * WINDOW) |-> IF j > WINDOW THEN WindowSum(sums, j - 1) ELSE 0],
             WINDOW + 1, 3 * WINDOW)

\* moving_avg[i] < baseline * threshold_pct, with the baseline the mean of
\* 2 * WINDOW moving averages:
\*   sum_i / n_i < (base / (WINDOW * 2 * WINDOW)) * (num / den)
Crosses(sums, base, i) ==
    WindowSum(sums, i) * WINDOW * 2 * WINDOW * THRESHOLD_PCT.den
        < base * THRESHOLD_PCT.num * (i - WindowStart(i) + 1)

\* ret is the smallest index from WINDOW on that crosses, or -1 if none does
IsFirstCrossing(sums, base, ret) ==
    IF ret = -1
    THEN \A i \in WINDOW..(Len(sums) - 1) : ~Crosses(sums, base, i)
    ELSE /\ ret \in WINDOW..(Len(sums) - 1)
         /\ Crosses(sums, base, ret)
         /\ \A i \in WINDOW..(ret - 1) : ~Crosses(sums, base, i)

\* C22: for a series of at least 3 * WINDOW probabilities
\* detect_degradation_rolling_avg returns the smallest index i >= WINDOW
\* whose moving average is under baseline * threshold_pct, and -1 exactly
\* when there is no such index.
C22_FirstCrossing ==
    pc = "aligned" =>
        \A sums \in {ProbSums} :
            Len(sums) >= 3 * WINDOW =>
                \A base \in {BaselineWindowSums(sums)} :
                    IsFirstCrossing(sums, base, RollingAvgIndex)

\* the detector returned an index that is followed by further indices under
\* the threshold
C22_Witness ==
    /\ pc = "aligned"
    /\ ~analysis_result.none
    /\ analysis_result.rolling_avg_method >= WINDOW
    /\ analysis_result.rolling_avg_method < Len(ValidProbs(words)) - 1
    /\ analysis_result.rolling_avg_method = RollingAvgIndex

(***************************************************************************)
(* C23: the CUSUM detector is one-sided and returns the first excess       *)
(***************************************************************************)

\* moving_avg[i] - target for i >= WINDOW, times WINDOW * 2 * WINDOW
Deviation(sums, base, i) == WindowSum(sums, i) * 2 * WINDOW - base

\* the values of cusum after the steps lo .. hi of the scan, which starts
\* from the value before: cusum = min(0, cusum + (moving_avg[i] - target))
RECURSIVE CusumValues(_, _, _, _, _)
CusumValues(sums, base, before, lo, hi) ==
    IF lo > hi THEN <<>>
    ELSE IF lo = hi
    THEN LET next == before + Deviation(sums, base, lo)
         IN  <<IF next < 0 THEN next ELSE 0>>
    ELSE LET mid == (lo + hi) \div 2
             left == CusumValues(sums, base, before, lo, mid)
         IN  left \o CusumValues(sums, base, left[Len(left)], mid + 1, hi)

\* |cusum| > threshold for a value scaled like Deviation, in hundredths
Exceeds(value) == 0 - value > CUSUM_THRESHOLD * 100 * WINDOW * 2 * WINDOW

\* values[j] is cusum after the step at index WINDOW + j - 1: no value is
\* positive, and ret is the first index whose value exceeds the threshold,
\* or -1 if there is none
IsFirstExcess(values, ret) ==
    /\ \A j \in 1..Len(values) : values[j] <= 0
    /\ IF ret = -1
       THEN \A j \in 1..Len(values) : ~Exceeds(values[j])
       ELSE /\ ret - WINDOW + 1 \in 1..Len(values)
            /\ Exceeds(values[ret - WINDOW + 1])
            /\ \A j \in 1..(ret - WINDOW) : ~Exceeds(values[j])

\* C23: for a series of at least 3 * WINDOW probabilities the running value
\* of detect_degradation_cusum is never positive, the function returns the
\* smallest index at which its absolute value exceeds the threshold, and -1
\* exactly when that never happens.
C23_OneSidedFirstExcess ==
    pc = "aligned" =>
        \A sums \in {ProbSums} :
            Len(sums) >= 3 * WINDOW =>
                \A values \in {CusumValues(sums, BaselineWindowSums(sums), 0,
                                           WINDOW, Len(sums) - 1)} :
                    IsFirstExcess(values, CusumIndex)

\* a series that starts at 0.60 and rises to 0.95 before it falls: the moving
\* average is over the target for a while, and the excess is found after it
C23_Witness ==
    /\ pc = "aligned"
    /\ ~analysis_result.none
    /\ words[1].probability = SomeInt(60)
    /\ analysis_result.cusum_method > Len(words) - 3 * WINDOW
    /\ analysis_result.cusum_method < Len(words) - 1

(***************************************************************************)
(* C29: several workers on one queue                                       *)
(***************************************************************************)

\* the events of an operation
EventsOf(op) == SelectSeq(events, LAMBDA e : e.op = op)

C29_SecondReceiveAfterTimeout ==
    \A i, j \in 1..Len(events) :
        (/\ i < j
         /\ events[i].op = "receive_messages"
         /\ events[j].op = "receive_messages"
         /\ events[i].key = events[j].key) =>
            \E k \in (i + 1)..(j - 1) :
                events[k] = PoolEvent("visibility_timeout", events[i].key, 0)
====
